---- MODULE Spec2Model ----
(***************************************************************************)
(* Anchor-based key/value extraction engine of Ana_test_DocumentAI:        *)
(* strategy engine, relationship learner/applier, key recognition and      *)
(* table structure analysis, modelled from the Python sources.             *)
(*                                                                         *)
(* Texts are sequences of one-character strings, so that strip, lower,     *)
(* substring search and isdigit are computed on the characters.  A Hangul   *)
(* syllable is one character, written by its romanisation ("sin" "jang"    *)
(* is the two-character text of the key for body height).                  *)
(* Floating point values are IEEE-754 doubles in the code.  The model      *)
(* writes a double x as the integer 10000*x rounded to the nearest ten,    *)
(* plus or minus one when x lies above or below the double nearest to     *)
(* that decimal (0.7999999999999999 is 7999, 0.8 is 8000 and              *)
(* 0.7000000000000001 is 7001), which keeps the order of all doubles the   *)
(* code compares at or above its thresholds.                               *)
(***************************************************************************)
EXTENDS Integers, Sequences, FiniteSets, TLC

VARIABLES
    strategies,     \* TableStrategyEngine._strategies of the singleton engine
    callers,        \* per caller: position, strategy reference, inputs, result
    selects,        \* number of select_strategy calls made so far
    scoring,        \* a walk of _calculate_confidence along one scan line
    relationships,  \* FileStorage: relationship id -> stored relationship data
    rel_session,    \* the relationship being learned and the result of applying
    analyses,       \* TableStructureAnalyzer: a kept analysis and the latest one
    key_db_file,    \* data/key_mapping_database.json, or NoFile
    new_keys_file,  \* discovered_keys of data/new_keys_discovered.json
    recognition,    \* the previous and the latest run of recognize_keys
    in_flight,      \* a recognize_keys call followed through its suspension points
    detection,      \* the latest _detect_complex_fields call of a matched key
    service_analyses \* AnalysisService.analyses: analysis id -> AnalysisResults

engineVars == <<strategies, callers, selects>>

scoringVars == <<scoring>>

relVars == <<relationships, rel_session>>

analyzerVars == <<analyses>>

recognitionVars == <<key_db_file, new_keys_file, recognition, in_flight>>

fieldVars == <<detection>>

serviceVars == <<service_analyses>>

vars == <<strategies, callers, selects, scoring, relationships, rel_session,
          analyses, key_db_file, new_keys_file, recognition, in_flight,
          detection, service_analyses>>

-----------------------------------------------------------------------------
(* Bounds of the model *)

MaxSelects == 2
MaxRows == 2
MaxCols == 3
AnchorReach == 1
MaxRelRows == 3
MaxBodyRows == 2
MaxElapsed == 1

-----------------------------------------------------------------------------
(* Python str operations on texts *)

NotText == <<"<None>">>

IsText(v) == v # NotText

Whitespace == {" ", "\t", "\n"}

Digits == {"0", "1", "2", "3", "4", "5", "6", "7", "8", "9"}

UpperCase == {"A", "B", "C", "H", "K", "M", "P"}

LowerCase ==
    {"a", "b", "c", "d", "e", "f", "g", "h", "i", "j", "k", "l", "m", "n", "o",
     "p", "q", "r", "s", "t", "u", "v", "w", "x", "y", "z"}

LowerChar(c) ==
    CASE c = "A" -> "a"
      [] c = "B" -> "b"
      [] c = "C" -> "c"
      [] c = "H" -> "h"
      [] c = "K" -> "k"
      [] c = "M" -> "m"
      [] c = "P" -> "p"
      [] OTHER -> c

Lower(s) == [i \in DOMAIN s |-> LowerChar(s[i])]

RECURSIVE LStrip(_)
LStrip(s) ==
    IF s # <<>> /\ Head(s) \in Whitespace THEN LStrip(Tail(s)) ELSE s

RECURSIVE RStrip(_)
RStrip(s) ==
    IF s # <<>> /\ s[Len(s)] \in Whitespace
    THEN RStrip(SubSeq(s, 1, Len(s) - 1))
    ELSE s

Strip(s) == RStrip(LStrip(s))

IsSpace(s) == s # <<>> /\ \A i \in DOMAIN s : s[i] \in Whitespace

IsDigit(s) == s # <<>> /\ \A i \in DOMAIN s : s[i] \in Digits

Contains(sub, s) ==
    \E i \in 0..(Len(s) - Len(sub)) : SubSeq(s, i + 1, i + Len(sub)) = sub

StartsWith(s, prefix) ==
    Len(prefix) <= Len(s) /\ SubSeq(s, 1, Len(prefix)) = prefix

EndsWith(s, suffix) ==
    Len(suffix) <= Len(s) /\ SubSeq(s, Len(s) - Len(suffix) + 1, Len(s)) = suffix

RemoveChar(s, ch) == SelectSeq(s, LAMBDA c : c # ch)

\* Python sequence indexing: a negative index counts from the end.
PyInRange(seq, i) == -Len(seq) <= i /\ i < Len(seq)

PyAt(seq, i) == IF i >= 0 THEN seq[i + 1] ELSE seq[Len(seq) + i + 1]

Max(a, b) == IF a >= b THEN a ELSE b

Min(a, b) == IF a <= b THEN a ELSE b

Abs(n) == IF n < 0 THEN -n ELSE n

-----------------------------------------------------------------------------
(* Cell texts the tables are built from *)

Hangul ==
    {"hang", "mok", "gu", "bun", "geom", "sa", "gyeol", "gwa", "su", "chi",
     "gabs", "gi", "jun", "sin", "jang", "ki", "nop", "yi", "hyeol", "ap",
     "che", "jung", "mom", "mu", "ge", "dang", "nyo", "seong", "myeong",
     "reum", "na", "yeon", "ryeong", "byeol", "jeon", "geo", "jak", "nyeon",
     "do", "so", "gyeon", "pan", "jeong", "mun", "jin", "chwal", "yeong",
     "ui", "dan", "am", "jong", "yang", "ak", "tong", "hap", "sang", "beom",
     "wi", "bi", "go", "cheuk"}

T_hangmok == <<"hang", "mok">>

T_gyeolgwa == <<"gyeol", "gwa">>

T_sinjang == <<"sin", "jang">>

T_170cm == <<"1", "7", "0", "c", "m">>

T_72 == <<" ", "7", "2">>

T_blank == <<" ">>

T_120 == <<"1", "2", "0">>

T_BP == <<"B", "P">>

T_bp == <<"b", "p">>

T_long == [i \in 1..21 |-> "x"]

T_1_234 == <<"1", ",", "2", "3", "4">>

\* a number of 21 digits
T_long_number == [i \in 1..21 |-> "7"]

-----------------------------------------------------------------------------
(* Strategy engine: src/backend/core/table_analyzer/strategy_engine.py *)

Orientations == {"horizontal", "vertical", "mixed", "unknown"}

Complexities == {"simple", "moderate", "complex"}

StrategyNames ==
    {"horizontal_header", "vertical_header", "mixed_header",
     "proximity_based", "cross_pattern"}

F_0_5 == 5000
F_0_6 == 6000
F_0_7 == 7000
F_0_8 == 8000
F_1_0 == 10000

\* The double nearest to t - 0.1, for the thresholds t the engine can hold.
FSubTenth(t) == IF t = F_0_8 THEN 7001 ELSE t - 1000

_initialize_strategies ==
    [n \in StrategyNames |->
        CASE n = "horizontal_header" ->
                [name |-> n, cell_search_strategy |-> "vertical_scan",
                 max_search_distance |-> 10, confidence_threshold |-> F_0_8]
          [] n = "vertical_header" ->
                [name |-> n, cell_search_strategy |-> "horizontal_scan",
                 max_search_distance |-> 15, confidence_threshold |-> F_0_8]
          [] n = "mixed_header" ->
                [name |-> n, cell_search_strategy |-> "cross_pattern",
                 max_search_distance |-> 8, confidence_threshold |-> F_0_7]
          [] n = "proximity_based" ->
                [name |-> n, cell_search_strategy |-> "proximity_based",
                 max_search_distance |-> 5, confidence_threshold |-> F_0_6]
          [] n = "cross_pattern" ->
                [name |-> n, cell_search_strategy |-> "cross_pattern",
                 max_search_distance |-> 6, confidence_threshold |-> F_0_5]]

\* select_strategy, lines 159-167: the catalog entry the orientation names.
StrategyNameFor(orientation) ==
    CASE orientation = "horizontal" -> "horizontal_header"
      [] orientation = "vertical" -> "vertical_header"
      [] orientation = "mixed" -> "mixed_header"
      [] OTHER -> "proximity_based"

\* select_strategy, lines 170-179: the adjustment is written into the catalog
\* entry itself (strategy is a reference to self._strategies[strategy_name]).
AdjustedStrategy(strategy, complexity) ==
    CASE complexity = "complex" ->
            [strategy EXCEPT
                !.max_search_distance = Min(strategy.max_search_distance, 6),
                !.confidence_threshold = Max(strategy.confidence_threshold, F_0_7)]
      [] complexity = "simple" ->
            [strategy EXCEPT
                !.max_search_distance = strategy.max_search_distance + 2,
                !.confidence_threshold =
                    Max(FSubTenth(strategy.confidence_threshold), F_0_5)]
      [] OTHER -> strategy

HeaderKeywords ==
    {<<"hang", "mok">>, <<"gu", "bun">>, <<"geom", "sa">>, <<"gyeol", "gwa">>,
     <<"su", "chi">>, <<"gabs">>, <<"gi", "jun">>}

\* target_patterns is a sequence of texts; <<>> stands for None.
_is_value_cell(cell_value, target_patterns) ==
    IF cell_value = <<>> \/ IsSpace(cell_value) THEN FALSE
    ELSE IF target_patterns # <<>>
    THEN \E i \in DOMAIN target_patterns :
            Contains(Lower(target_patterns[i]), Lower(cell_value))
    ELSE \A keyword \in HeaderKeywords : ~Contains(keyword, cell_value)

IsNumericShape(cell_value) ==
    IsDigit(RemoveChar(RemoveChar(RemoveChar(cell_value, "."), "-"), "+"))

\* _calculate_confidence with the distance penalty stopping at distance 5.
CappedPenaltyConfidence(cell_value, distance) ==
    LET adjust == IF IsNumericShape(cell_value) THEN 1000
                  ELSE IF Len(cell_value) > 20 THEN -2000
                  ELSE 0
    IN  Max(0, Min(F_1_0, F_1_0 - Min(distance, 5) * 1000 + adjust))

\* The error of the double arithmetic of 1.0 - distance*0.1 (+0.1 | -0.2),
\* in the unit of the encoding: which side of the decimal the double lies on.
RoundingSide(distance, adjust) ==
    CASE adjust = 0 /\ distance \in 6..9 -> -1
      [] adjust = 1000 /\ distance \in {3, 6, 7, 8, 9} -> -1
      [] adjust = -2000 /\ distance \in {3, 4, 6, 7} -> -1
      [] adjust = -2000 /\ distance = 2 -> 1
      [] OTHER -> 0

_calculate_confidence(cell_value, distance) ==
    LET adjust == IF IsNumericShape(cell_value) THEN 1000
                  ELSE IF Len(cell_value) > 20 THEN -2000
                  ELSE 0
        base_confidence == F_1_0 - distance * 1000 + adjust
        rounded == IF base_confidence > 0 /\ base_confidence < F_1_0
                   THEN base_confidence + RoundingSide(distance, adjust)
                   ELSE base_confidence
    IN  Max(0, Min(F_1_0, rounded))

\* SearchResult(found=False, row=-1, col=-1, value="", confidence=0.0, ...)
NotFoundResult(search_path, strategy) ==
    [found |-> FALSE, row |-> -1, col |-> -1, value |-> <<>>, confidence |-> 0,
     search_path |-> search_path, strategy_used |-> strategy.name]

FoundResult(row, col, value, confidence, search_path, strategy) ==
    [found |-> TRUE, row |-> row, col |-> col, value |-> value,
     confidence |-> confidence, search_path |-> search_path,
     strategy_used |-> strategy.name]

\* How a scan ends: it returns a SearchResult, or an exception leaves it
\* (IndexError of an index below -len, AttributeError of .strip() on a cell
\* that is not a str).  probed is the scan's local search_path at that point.
Returned(result, probed) == [raised |-> FALSE, result |-> result, probed |-> probed]

Raised(probed, strategy) ==
    [raised |-> TRUE, result |-> NotFoundResult(<<>>, strategy), probed |-> probed]

Accepts(cell_value, distance, strategy, target_patterns) ==
    /\ cell_value # <<>>
    /\ _is_value_cell(cell_value, target_patterns)
    /\ _calculate_confidence(cell_value, distance) >= strategy.confidence_threshold

RECURSIVE VerticalScanFrom(_, _, _, _, _, _, _)
VerticalScanFrom(table_data, anchor_row, anchor_col, strategy, target_patterns, distance, search_path) ==
    LET new_row == anchor_row + distance
        path == Append(search_path, <<new_row, anchor_col>>)
    IN  IF distance > strategy.max_search_distance \/ new_row >= Len(table_data)
        THEN Returned(NotFoundResult(search_path, strategy), search_path)
        ELSE IF ~PyInRange(table_data, new_row) THEN Raised(path, strategy)
        ELSE IF ~(anchor_col < Len(PyAt(table_data, new_row)))
        THEN VerticalScanFrom(table_data, anchor_row, anchor_col, strategy,
                              target_patterns, distance + 1, path)
        ELSE IF ~PyInRange(PyAt(table_data, new_row), anchor_col)
                \/ ~IsText(PyAt(PyAt(table_data, new_row), anchor_col))
        THEN Raised(path, strategy)
        ELSE LET cell_value == Strip(PyAt(PyAt(table_data, new_row), anchor_col))
             IN  IF Accepts(cell_value, distance, strategy, target_patterns)
                 THEN Returned(FoundResult(new_row, anchor_col, cell_value,
                                  _calculate_confidence(cell_value, distance),
                                  path, strategy), path)
                 ELSE VerticalScanFrom(table_data, anchor_row, anchor_col, strategy,
                                       target_patterns, distance + 1, path)

_vertical_scan(table_data, anchor_row, anchor_col, strategy, target_patterns) ==
    VerticalScanFrom(table_data, anchor_row, anchor_col, strategy,
                     target_patterns, 1, <<>>)

RECURSIVE HorizontalScanFrom(_, _, _, _, _, _, _)
HorizontalScanFrom(table_data, anchor_row, anchor_col, strategy, target_patterns, distance, search_path) ==
    LET new_col == anchor_col + distance
        path == Append(search_path, <<anchor_row, new_col>>)
    IN  IF distance > strategy.max_search_distance
        THEN Returned(NotFoundResult(search_path, strategy), search_path)
        ELSE IF ~PyInRange(table_data, anchor_row) THEN Raised(search_path, strategy)
        ELSE IF new_col >= Len(PyAt(table_data, anchor_row))
        THEN Returned(NotFoundResult(search_path, strategy), search_path)
        ELSE IF ~PyInRange(PyAt(table_data, anchor_row), new_col)
                \/ ~IsText(PyAt(PyAt(table_data, anchor_row), new_col))
        THEN Raised(path, strategy)
        ELSE LET cell_value == Strip(PyAt(PyAt(table_data, anchor_row), new_col))
             IN  IF Accepts(cell_value, distance, strategy, target_patterns)
                 THEN Returned(FoundResult(anchor_row, new_col, cell_value,
                                  _calculate_confidence(cell_value, distance),
                                  path, strategy), path)
                 ELSE HorizontalScanFrom(table_data, anchor_row, anchor_col, strategy,
                                         target_patterns, distance + 1, path)

_horizontal_scan(table_data, anchor_row, anchor_col, strategy, target_patterns) ==
    IF anchor_row >= Len(table_data)
    THEN Returned(NotFoundResult(<<>>, strategy), <<>>)
    ELSE HorizontalScanFrom(table_data, anchor_row, anchor_col, strategy,
                            target_patterns, 1, <<>>)

\* directions of _cross_pattern_search, lines 324-329: right, down, left, up
CrossDirections == <<<<0, 1>>, <<1, 0>>, <<0, -1>>, <<-1, 0>>>>

InGrid(table_data, row, col) ==
    /\ row >= 0 /\ row < Len(table_data)
    /\ col >= 0 /\ col < Len(table_data[row + 1])

\* state of the loops: search_path, best_result (<<>> is None), best_confidence
RECURSIVE CrossScanFrom(_, _, _, _, _, _, _, _)
CrossScanFrom(table_data, anchor_row, anchor_col, strategy, target_patterns, dir, distance, st) ==
    IF dir > Len(CrossDirections)
    THEN IF st.best_result # <<>>
            /\ st.best_confidence >= strategy.confidence_threshold
         THEN Returned(st.best_result[1], st.search_path)
         ELSE Returned(NotFoundResult(st.search_path, strategy), st.search_path)
    ELSE LET new_row == anchor_row + CrossDirections[dir][1] * distance
             new_col == anchor_col + CrossDirections[dir][2] * distance
             path == Append(st.search_path, <<new_row, new_col>>)
         IN  IF distance > strategy.max_search_distance
                \/ ~InGrid(table_data, new_row, new_col)
             THEN CrossScanFrom(table_data, anchor_row, anchor_col, strategy,
                                target_patterns, dir + 1, 1, st)
             ELSE IF ~IsText(table_data[new_row + 1][new_col + 1])
             THEN Raised(path, strategy)
             ELSE LET cell_value == Strip(table_data[new_row + 1][new_col + 1])
                      confidence == _calculate_confidence(cell_value, distance)
                      better == /\ cell_value # <<>>
                                /\ _is_value_cell(cell_value, target_patterns)
                                /\ confidence > st.best_confidence
                  IN  CrossScanFrom(table_data, anchor_row, anchor_col, strategy,
                          target_patterns, dir, distance + 1,
                          IF better
                          THEN [search_path |-> path,
                                best_result |-> <<FoundResult(new_row, new_col,
                                    cell_value, confidence, path, strategy)>>,
                                best_confidence |-> confidence]
                          ELSE [st EXCEPT !.search_path = path])

_cross_pattern_search(table_data, anchor_row, anchor_col, strategy, target_patterns) ==
    CrossScanFrom(table_data, anchor_row, anchor_col, strategy, target_patterns,
                  1, 1,
                  [search_path |-> <<>>, best_result |-> <<>>, best_confidence |-> 0])

\* max(candidates, key=confidence): the first candidate of the highest confidence
RECURSIVE BestCandidate(_)
BestCandidate(candidates) ==
    IF Len(candidates) = 1 THEN candidates[1]
    ELSE LET last == candidates[Len(candidates)]
             best == BestCandidate(SubSeq(candidates, 1, Len(candidates) - 1))
         IN  IF last.confidence > best.confidence THEN last ELSE best

\* The rows and columns of the square that lie outside the grid are skipped
\* by the range check of lines 386-388; the loops below start and end at the
\* grid's edge, which visits the same cells in the same order.
RECURSIVE ProximityScanFrom(_, _, _, _, _, _, _, _)
ProximityScanFrom(table_data, anchor_row, anchor_col, strategy, target_patterns, dr, dc, st) ==
    LET max_d == strategy.max_search_distance
        new_row == anchor_row + dr
        new_col == anchor_col + dc
        path == Append(st.search_path, <<new_row, new_col>>)
    IN  IF dr > max_d \/ new_row >= Len(table_data)
        THEN IF st.candidates # <<>>
                /\ BestCandidate(st.candidates).confidence
                       >= strategy.confidence_threshold
             THEN LET best == BestCandidate(st.candidates)
                  IN  Returned(FoundResult(best.row, best.col, best.value,
                                   best.confidence, st.search_path, strategy),
                               st.search_path)
             ELSE Returned(NotFoundResult(st.search_path, strategy), st.search_path)
        ELSE IF new_row < 0
        THEN ProximityScanFrom(table_data, anchor_row, anchor_col, strategy,
                               target_patterns, -anchor_row, -max_d, st)
        ELSE IF dc > max_d \/ new_col >= Len(table_data[new_row + 1])
        THEN ProximityScanFrom(table_data, anchor_row, anchor_col, strategy,
                               target_patterns, dr + 1, -max_d, st)
        ELSE IF new_col < 0
        THEN ProximityScanFrom(table_data, anchor_row, anchor_col, strategy,
                               target_patterns, dr, -anchor_col, st)
        ELSE IF dr = 0 /\ dc = 0
        THEN ProximityScanFrom(table_data, anchor_row, anchor_col, strategy,
                               target_patterns, dr, dc + 1, st)
        ELSE IF ~IsText(table_data[new_row + 1][new_col + 1])
        THEN Raised(path, strategy)
        ELSE LET cell_value == Strip(table_data[new_row + 1][new_col + 1])
                 distance == Abs(dr) + Abs(dc)
                 candidate == [row |-> new_row, col |-> new_col,
                               value |-> cell_value,
                               confidence |-> _calculate_confidence(cell_value, distance),
                               distance |-> distance]
             IN  ProximityScanFrom(table_data, anchor_row, anchor_col, strategy,
                     target_patterns, dr, dc + 1,
                     [search_path |-> path,
                      candidates |->
                          IF cell_value # <<>>
                             /\ _is_value_cell(cell_value, target_patterns)
                          THEN Append(st.candidates, candidate)
                          ELSE st.candidates])

_proximity_based_search(table_data, anchor_row, anchor_col, strategy, target_patterns) ==
    ProximityScanFrom(table_data, anchor_row, anchor_col, strategy, target_patterns,
                      -strategy.max_search_distance, -strategy.max_search_distance,
                      [search_path |-> <<>>, candidates |-> <<>>])

\* find_value_cell, lines 211-229: an exception of the scan is caught and
\* answered with found=False and an empty search_path.
find_value_cell(table_data, anchor_row, anchor_col, strategy, target_patterns) ==
    CASE strategy.cell_search_strategy = "vertical_scan" ->
            _vertical_scan(table_data, anchor_row, anchor_col, strategy, target_patterns)
      [] strategy.cell_search_strategy = "horizontal_scan" ->
            _horizontal_scan(table_data, anchor_row, anchor_col, strategy, target_patterns)
      [] strategy.cell_search_strategy = "cross_pattern" ->
            _cross_pattern_search(table_data, anchor_row, anchor_col, strategy, target_patterns)
      [] OTHER ->
            _proximity_based_search(table_data, anchor_row, anchor_col, strategy, target_patterns)

-----------------------------------------------------------------------------
(* Callers of the singleton engine (get_table_strategy_engine): each takes a
   table's analysis to select_strategy, keeps the ExtractionStrategy object it
   is handed, and passes it to find_value_cell. *)

Callers == {1, 2}

R_empty == <<>>
R_head == <<T_hangmok, T_gyeolgwa>>
R_sin == <<T_sinjang, T_170cm>>
R_short == <<T_sinjang>>
R_none == <<T_sinjang, NotText>>
R_wide == <<T_sinjang, T_blank, T_long>>
R_num == <<T_72, T_170cm, T_long>>
R_gap == <<T_sinjang, NotText, T_170cm>>

RowPool == {R_empty, R_head, R_sin, R_short, R_none, R_wide, R_num, R_gap}

\* a ragged grid whose middle row is too short to hold column 0
RaggedGrid == <<R_short, R_empty, R_sin>>

Grids == UNION {[1..n -> RowPool] : n \in 1..MaxRows} \cup {RaggedGrid}

AnchorRows == (0 - AnchorReach)..(MaxRows - 1 + AnchorReach)

AnchorCols == (0 - AnchorReach)..(MaxCols - 1 + AnchorReach)

ScenarioAGrid == <<R_head, R_sin>>

SharedGrids == {<<R_wide>>, ScenarioAGrid}

NoStrategy ==
    [name |-> "", cell_search_strategy |-> "", max_search_distance |-> 0,
     confidence_threshold |-> 0]

IdleCaller ==
    [pc |-> "idle", orientation |-> "", complexity |-> "", strategy |-> "",
     obtained |-> NoStrategy, used |-> NoStrategy, table_data |-> <<>>,
     anchor_row |-> 0, anchor_col |-> 0,
     result |-> NotFoundResult(<<>>, NoStrategy), probed |-> <<>>,
     caught |-> FALSE]

EngineInit ==
    /\ strategies = _initialize_strategies
    /\ callers = [c \in Callers |-> IdleCaller]
    /\ selects = 0

\* No scan line is being scored.
NoScoring ==
    [strategy |-> NoStrategy, cell_value |-> <<>>, distance |-> 0,
     confidences |-> <<>>]

ScoringInit == scoring = NoScoring

\* select_strategy(table_analysis): picks the catalog entry, adjusts it in
\* place and returns the entry itself; obtained records its fields as returned.
SelectStrategy(c, orientation, complexity) ==
    LET strategy_name == StrategyNameFor(orientation)
        strategy == AdjustedStrategy(strategies[strategy_name], complexity)
    IN  /\ callers[c].pc = "idle"
        /\ selects < MaxSelects
        /\ strategies' = [strategies EXCEPT ![strategy_name] = strategy]
        /\ callers' = [callers EXCEPT ![c] =
                [IdleCaller EXCEPT !.pc = "selected",
                                   !.orientation = orientation,
                                   !.complexity = complexity,
                                   !.strategy = strategy_name,
                                   !.obtained = strategy]]
        /\ selects' = selects + 1
        /\ UNCHANGED <<scoringVars, relVars, analyzerVars, recognitionVars,
                       fieldVars, serviceVars>>

\* find_value_cell(table_data, anchor_row, anchor_col, strategy) with the
\* strategy object the caller holds, read when the search runs.
FindValueCell(c, table_data, anchor_row, anchor_col) ==
    LET strategy == strategies[callers[c].strategy]
        outcome == find_value_cell(table_data, anchor_row, anchor_col, strategy, <<>>)
    IN  /\ callers[c].pc = "selected"
        /\ callers' = [callers EXCEPT ![c] =
                [@ EXCEPT !.pc = "searched",
                          !.used = strategy,
                          !.table_data = table_data,
                          !.anchor_row = anchor_row,
                          !.anchor_col = anchor_col,
                          !.result = outcome.result,
                          !.probed = outcome.probed,
                          !.caught = outcome.raised]]
        /\ UNCHANGED <<strategies, selects, scoringVars, relVars, analyzerVars, recognitionVars,
                       fieldVars, serviceVars>>

\* the caller goes on to its next table
NextTable(c) ==
    /\ callers[c].pc = "searched"
    /\ callers' = [callers EXCEPT ![c] = IdleCaller]
    /\ UNCHANGED <<strategies, selects, scoringVars, relVars, analyzerVars, recognitionVars,
                   fieldVars, serviceVars>>

EngineNext ==
    \/ \E c \in Callers, o \in Orientations, x \in Complexities :
            SelectStrategy(c, o, x)
    \/ \E c \in Callers, g \in SharedGrids, r \in {0, 1}, k \in {0, 1} :
            FindValueCell(c, g, r, k)
    \/ \E c \in Callers : NextTable(c)

\* One caller, one table: every grid and anchor of the bounds.
SearchNext ==
    \/ \E o \in Orientations, x \in Complexities : SelectStrategy(1, o, x)
    \/ \E g \in Grids, r \in AnchorRows, k \in AnchorCols :
            FindValueCell(1, g, r, k)

-----------------------------------------------------------------------------
(* Claims about the strategy engine *)

Searched(c) == callers[c].pc = "searched"

Manhattan(r1, c1, r2, c2) == Abs(r1 - r2) + Abs(c1 - c2)

InBoundsProbes(table_data, probed) ==
    SelectSeq(probed, LAMBDA p : InGrid(table_data, p[1], p[2]))

\* C1: after any sequence of select_strategy calls every catalog entry still
\* has the max_search_distance and the confidence_threshold it was
\* constructed with.
C1_CatalogUnchanged ==
    \A n \in StrategyNames :
        /\ strategies[n].max_search_distance
               = _initialize_strategies[n].max_search_distance
        /\ strategies[n].confidence_threshold
               = _initialize_strategies[n].confidence_threshold

\* C2: the strategy a caller obtained from select_strategy keeps its
\* max_search_distance and confidence_threshold until that caller runs
\* find_value_cell, whatever the other caller selects in between, and the
\* caller's search result is the one its own grid, anchor and analysis give.
C2_CallerIsolation ==
    \A c \in Callers :
        /\ callers[c].pc = "selected"
              => strategies[callers[c].strategy] = callers[c].obtained
        /\ Searched(c)
              => /\ callers[c].used = callers[c].obtained
                 /\ callers[c].result =
                        find_value_cell(callers[c].table_data,
                            callers[c].anchor_row, callers[c].anchor_col,
                            callers[c].obtained, <<>>).result

\* C4: a result with found=true names a cell inside the grid, other than the
\* anchor, at Manhattan distance 1..max_search_distance from it; any other
\* result is found=false with row=-1 and col=-1.
C4_BoundarySafety ==
    \A c \in Callers :
        Searched(c) =>
            LET r == callers[c].result
                d == Manhattan(r.row, r.col, callers[c].anchor_row,
                               callers[c].anchor_col)
            IN  IF r.found
                THEN /\ InGrid(callers[c].table_data, r.row, r.col)
                     /\ d >= 1
                     /\ d <= callers[c].used.max_search_distance
                ELSE r.row = -1 /\ r.col = -1

\* C5: find_value_cell returns a SearchResult for every grid and anchor, and
\* a result with found=false carries as search_path exactly the in-bounds
\* cells the call probed, in probe order.
C5_SearchPathRetained ==
    \A c \in Callers :
        Searched(c) /\ ~callers[c].result.found =>
            callers[c].result.search_path
                = InBoundsProbes(callers[c].table_data, callers[c].probed)

\* C17: whatever calls came before, select_strategy hands out the strategy
\* the orientation names, with the constructed max_search_distance and
\* confidence_threshold adjusted once for the complexity: complex gives
\* min(distance, 6) and max(threshold, 0.7), simple gives distance + 2 and
\* max(threshold - 0.1, 0.5), moderate leaves both as constructed.
C17_AdjustedOnce ==
    \A c \in Callers :
        callers[c].pc = "selected" =>
            LET o == callers[c].orientation
                x == callers[c].complexity
                got == callers[c].obtained
                built == _initialize_strategies[got.name]
            IN  /\ got.name = (CASE o = "horizontal" -> "horizontal_header"
                                 [] o = "vertical" -> "vertical_header"
                                 [] o = "mixed" -> "mixed_header"
                                 [] o = "unknown" -> "proximity_based")
                /\ x = "complex" =>
                      /\ got.max_search_distance = Min(built.max_search_distance, 6)
                      /\ got.confidence_threshold
                             = Max(built.confidence_threshold, F_0_7)
                /\ x = "simple" =>
                      /\ got.max_search_distance = built.max_search_distance + 2
                      /\ got.confidence_threshold
                             = Max(FSubTenth(built.confidence_threshold), F_0_5)
                /\ x = "moderate" =>
                      /\ got.max_search_distance = built.max_search_distance
                      /\ got.confidence_threshold = built.confidence_threshold

-----------------------------------------------------------------------------
\* the cell at distance d on the scan line of a vertical_scan (below the
\* anchor) or a horizontal_scan (right of the anchor)
ScanLineCell(c, d) ==
    IF callers[c].used.cell_search_strategy = "vertical_scan"
    THEN <<callers[c].anchor_row + d, callers[c].anchor_col>>
    ELSE <<callers[c].anchor_row, callers[c].anchor_col + d>>

\* the cell at distance d is inside the grid, passes the value predicate and
\* reaches the confidence threshold
QualifiesAt(c, d) ==
    LET p == ScanLineCell(c, d)
        table_data == callers[c].table_data
    IN  /\ InGrid(table_data, p[1], p[2])
        /\ IsText(table_data[p[1] + 1][p[2] + 1])
        /\ Accepts(Strip(table_data[p[1] + 1][p[2] + 1]), d, callers[c].used, <<>>)

QualifyingDistances(c) ==
    {d \in 1..callers[c].used.max_search_distance : QualifiesAt(c, d)}

LineScanned(c) ==
    /\ Searched(c)
    /\ callers[c].used.cell_search_strategy \in {"vertical_scan", "horizontal_scan"}

\* C24: a vertical_scan probes only the cells below the anchor in its column
\* and a horizontal_scan only the cells right of it in its row, one per
\* distance from 1 on; the result is found=true at the nearest cell of that
\* line which is inside the grid, passes the value predicate and reaches the
\* confidence threshold, and found=false exactly when the line has no such
\* cell within max_search_distance.
C24_NearestOnScanLine ==
    \A c \in Callers :
        LineScanned(c) =>
            LET r == callers[c].result
                ds == QualifyingDistances(c)
            IN  /\ \A i \in DOMAIN callers[c].probed :
                        callers[c].probed[i] = ScanLineCell(c, i)
                /\ r.found <=> ds # {}
                /\ r.found =>
                        \E d \in ds :
                            /\ \A e \in ds : d <= e
                            /\ <<r.row, r.col>> = ScanLineCell(c, d)

CrossScanned(c) ==
    /\ Searched(c)
    /\ callers[c].used.cell_search_strategy = "cross_pattern"

\* the cells of the grid on the four arms of the anchor, each with its
\* distance, up to max_search_distance
ArmCells(c) ==
    {p \in {<<callers[c].anchor_row + CrossDirections[dir][1] * d,
              callers[c].anchor_col + CrossDirections[dir][2] * d, d>> :
                dir \in DOMAIN CrossDirections,
                d \in 1..callers[c].used.max_search_distance} :
        InGrid(callers[c].table_data, p[1], p[2])}

\* a cell with its distance passes the value predicate
PassesAt(table_data, p) ==
    /\ IsText(table_data[p[1] + 1][p[2] + 1])
    /\ Strip(table_data[p[1] + 1][p[2] + 1]) # <<>>
    /\ _is_value_cell(Strip(table_data[p[1] + 1][p[2] + 1]), <<>>)

ConfidenceAt(table_data, p) ==
    _calculate_confidence(Strip(table_data[p[1] + 1][p[2] + 1]), p[3])

\* the candidates of the highest confidence, when that confidence reaches
\* the threshold
BestOf(table_data, candidates, threshold) ==
    {p \in candidates :
        /\ ConfidenceAt(table_data, p) >= threshold
        /\ \A q \in candidates :
                ConfidenceAt(table_data, q) <= ConfidenceAt(table_data, p)}

\* C25: a cross_pattern search returns found=true at a cell of the highest
\* confidence among the cells of the grid that lie on the four arms of the
\* anchor within max_search_distance and pass the value predicate, when that
\* confidence reaches the threshold, and found=false otherwise.
C25_BestOnArms ==
    \A c \in Callers :
        CrossScanned(c) =>
            LET r == callers[c].result
                table_data == callers[c].table_data
                best == BestOf(table_data,
                               {p \in ArmCells(c) : PassesAt(table_data, p)},
                               callers[c].used.confidence_threshold)
            IN  /\ r.found <=> best # {}
                /\ r.found =>
                        \E p \in best :
                            /\ r.row = p[1]
                            /\ r.col = p[2]
                            /\ r.confidence = ConfidenceAt(table_data, p)

ProximityScanned(c) ==
    /\ Searched(c)
    /\ callers[c].used.cell_search_strategy = "proximity_based"

\* the cells of the grid in the square of side 2 * max_search_distance + 1
\* around the anchor, the anchor left out, each with its Manhattan distance
SquareCells(c) ==
    {p \in {<<callers[c].anchor_row + dr, callers[c].anchor_col + dc,
              Abs(dr) + Abs(dc)>> :
                dr \in (0 - callers[c].used.max_search_distance)
                           ..callers[c].used.max_search_distance,
                dc \in (0 - callers[c].used.max_search_distance)
                           ..callers[c].used.max_search_distance} :
        /\ p[3] # 0
        /\ InGrid(callers[c].table_data, p[1], p[2])}

RowMajorBefore(p, q) == p[1] < q[1] \/ (p[1] = q[1] /\ p[2] <= q[2])

\* C26: a proximity_based search returns found=true at the cell of the
\* highest confidence among the cells of the grid in the square around the
\* anchor (the anchor left out) that pass the value predicate, each scored at
\* its Manhattan distance, when that confidence reaches the threshold, and
\* found=false otherwise; of several cells of the highest confidence it
\* returns the first in row-major order.
C26_BestInSquare ==
    \A c \in Callers :
        ProximityScanned(c) =>
            LET r == callers[c].result
                table_data == callers[c].table_data
                best == BestOf(table_data,
                               {p \in SquareCells(c) : PassesAt(table_data, p)},
                               callers[c].used.confidence_threshold)
            IN  /\ r.found <=> best # {}
                /\ r.found =>
                        \E p \in best :
                            /\ \A q \in best : RowMajorBefore(p, q)
                            /\ r.row = p[1]
                            /\ r.col = p[2]
                            /\ r.confidence = ConfidenceAt(table_data, p)

(* The confidence a scan assigns along one line of cells holding the same
   text: _vertical_scan, _horizontal_scan and _proximity_based_search call
   _calculate_confidence(cell_value, distance, strategy) for distance 1, 2,
   ... up to strategy.max_search_distance. *)

ScanStrategyNames ==
    {n \in StrategyNames :
        _initialize_strategies[n].cell_search_strategy
            \in {"vertical_scan", "horizontal_scan", "proximity_based"}}

ScoredTexts == {T_sinjang, T_170cm, T_120, T_long, T_blank, T_1_234, T_long_number}

BeginScoring(n, cell_value) ==
    /\ scoring = NoScoring
    /\ scoring' = [NoScoring EXCEPT !.strategy = strategies[n],
                                    !.cell_value = cell_value]
    /\ UNCHANGED <<engineVars, relVars, analyzerVars, recognitionVars,
                   fieldVars, serviceVars>>

ScoreNext ==
    /\ scoring.strategy # NoStrategy
    /\ scoring.distance < scoring.strategy.max_search_distance
    /\ scoring' = [scoring EXCEPT
            !.distance = @ + 1,
            !.confidences = Append(@,
                _calculate_confidence(scoring.cell_value, scoring.distance + 1))]
    /\ UNCHANGED <<engineVars, relVars, analyzerVars, recognitionVars,
                   fieldVars, serviceVars>>

ConfidenceNext ==
    \/ \E o \in Orientations, x \in Complexities : SelectStrategy(1, o, x)
    \/ \E n \in ScanStrategyNames, t \in ScoredTexts : BeginScoring(n, t)
    \/ ScoreNext

\* C6 (as stated): for a fixed cell text the confidence at distance d+1 is
\* strictly smaller than at distance d, for every 1 <= d < max_search_distance
\* of the strategies driving the vertical, horizontal and proximity scans.
C6_StrictlyDecreasing ==
    \A d \in 1..(Len(scoring.confidences) - 1) :
        scoring.confidences[d + 1] < scoring.confidences[d]

\* C6 (amended): for a fixed cell text the confidence at distance d+1 is never
\* larger than at distance d and is strictly smaller whenever the confidence
\* at distance d is above 0, for every 1 <= d < max_search_distance; once the
\* confidence has reached 0 it stays 0.
C6_DecreasingUntilZero ==
    \A d \in 1..(Len(scoring.confidences) - 1) :
        /\ scoring.confidences[d + 1] <= scoring.confidences[d]
        /\ scoring.confidences[d] > 0
              => scoring.confidences[d + 1] < scoring.confidences[d]

\* A scan line of vertical_header after the SIMPLE adjustment, scored to its
\* max_search_distance of 17, whose confidence has been 0 since distance 10.
C6_Witness ==
    /\ scoring.strategy.name = "vertical_header"
    /\ scoring.strategy.max_search_distance = 17
    /\ scoring.distance = 17
    /\ scoring.confidences[9] > 0
    /\ scoring.confidences[10] = 0
    /\ scoring.confidences[17] = 0

\* A decimal number: digits with an optional sign, periods and commas
IsDecimalNumber(text) ==
    LET unsigned == IF text # <<>> /\ Head(text) \in {"+", "-"} THEN Tail(text)
                    ELSE text
    IN  IsDigit(RemoveChar(RemoveChar(unsigned, "."), ","))

\* clamp to [0,1] of 1.0 - 0.1*d, plus 0.1 for a decimal number, minus 0.2 for
\* a text longer than 20 characters, each correction on its own
StatedConfidence(text, d) ==
    Max(0, Min(F_1_0, F_1_0 - d * 1000
                        + (IF IsDecimalNumber(text) THEN 1000 ELSE 0)
                        - (IF Len(text) > 20 THEN 2000 ELSE 0)))

\* C22: for a candidate text at Manhattan distance d, _calculate_confidence
\* returns the clamp to [0,1] of 1.0 - 0.1*d, plus 0.1 if the text is a
\* decimal number (sign, periods and commas allowed), minus 0.2 if the text is
\* longer than 20 characters, the two corrections being independent.  The
\* values are compared up to the rounding of the double arithmetic.
C22_ConfidenceFormula ==
    \A d \in 1..Len(scoring.confidences) :
        Abs(scoring.confidences[d] - StatedConfidence(scoring.cell_value, d)) <= 1

-----------------------------------------------------------------------------
(* Relationship learner and applier:
   src/backend/services/relationship_service.py, over the GridData that
   convert_to_grid_data builds from a table's rows.  FileStorage is the
   relationships directory of a working file system: one record per id. *)

confidence_base == 5000
confidence_anchor_weight == 3000
confidence_value_weight == 2000
confidence_numeric_weight == 1000
text_similarity_exact == 10000
text_similarity_case_insensitive == 9000
text_similarity_partial == 7000
text_similarity_default == 3000

\* CellData(row, col, content=str(cell_content).strip())
CellData(row, col, cell_content) ==
    [row |-> row, col |-> col, content |-> Strip(cell_content)]

RECURSIVE CellsOfRow(_, _, _)
CellsOfRow(row, row_idx, col_idx) ==
    IF col_idx >= Len(row) THEN <<>>
    ELSE <<CellData(row_idx, col_idx, row[col_idx + 1])>>
             \o CellsOfRow(row, row_idx, col_idx + 1)

RECURSIVE CellsOfRows(_, _)
CellsOfRows(all_rows, row_idx) ==
    IF row_idx >= Len(all_rows) THEN <<>>
    ELSE CellsOfRow(all_rows[row_idx + 1], row_idx, 0)
             \o CellsOfRows(all_rows, row_idx + 1)

RECURSIVE MaxRowLength(_)
MaxRowLength(all_rows) ==
    IF all_rows = <<>> THEN 0
    ELSE Max(Len(Head(all_rows)), MaxRowLength(Tail(all_rows)))

\* GridData(rows=len(all_rows), cols=max(len(row)), cells=cells)
convert_to_grid_data(all_rows) ==
    [rows |-> Len(all_rows), cols |-> MaxRowLength(all_rows),
     cells |-> CellsOfRows(all_rows, 0)]

\* _calculate_relative_position with the distance taken along one axis only.
LongestAxisPosition(anchor_cell, value_cell) ==
    LET row_diff == value_cell.row - anchor_cell.row
        col_diff == value_cell.col - anchor_cell.col
    IN  [row_offset |-> row_diff, col_offset |-> col_diff,
         direction |-> IF row_diff = 0 /\ col_diff = 0 THEN "same"
                       ELSE IF col_diff > 0 THEN "right"
                       ELSE IF col_diff < 0 THEN "left"
                       ELSE IF row_diff > 0 THEN "down" ELSE "up",
         distance |-> Max(Abs(row_diff), Abs(col_diff))]

_calculate_relative_position(anchor_cell, value_cell) ==
    LET row_diff == value_cell.row - anchor_cell.row
        col_diff == value_cell.col - anchor_cell.col
        direction ==
            IF row_diff = 0 /\ col_diff > 0 THEN "right"
            ELSE IF row_diff = 0 /\ col_diff < 0 THEN "left"
            ELSE IF row_diff > 0 /\ col_diff = 0 THEN "down"
            ELSE IF row_diff < 0 /\ col_diff = 0 THEN "up"
            ELSE IF row_diff > 0 /\ col_diff > 0 THEN "down_right"
            ELSE IF row_diff > 0 /\ col_diff < 0 THEN "down_left"
            ELSE IF row_diff < 0 /\ col_diff > 0 THEN "up_right"
            ELSE IF row_diff < 0 /\ col_diff < 0 THEN "up_left"
            ELSE "same"
    IN  [row_offset |-> row_diff, col_offset |-> col_diff,
         direction |-> direction,
         distance |-> Abs(row_diff) + Abs(col_diff)]

\* A search that stops at the first cell holding the content
FirstMatchingCell(grid_data, content) ==
    LET matching_cells ==
            SelectSeq(grid_data.cells,
                      LAMBDA cell : Contains(Lower(content), Lower(cell.content)))
    IN  IF matching_cells = <<>> THEN <<>> ELSE <<Head(matching_cells)>>

\* _find_cells_by_content(table_data, content), exact_match=False
_find_cells_by_content(grid_data, content) ==
    SelectSeq(grid_data.cells,
              LAMBDA cell : Contains(Lower(content), Lower(cell.content)))

NoCell == [row |-> -1, col |-> -1, content |-> NotText]

RECURSIVE FirstCellAt(_, _, _)
FirstCellAt(cells, target_row, target_col) ==
    IF cells = <<>> THEN NoCell
    ELSE IF Head(cells).row = target_row /\ Head(cells).col = target_col
    THEN Head(cells)
    ELSE FirstCellAt(Tail(cells), target_row, target_col)

_find_value_cell_by_position(grid_data, anchor_cell, relative_position) ==
    LET target_row == anchor_cell.row + relative_position.row_offset
        target_col == anchor_cell.col + relative_position.col_offset
    IN  IF \/ target_row < 0 \/ target_row >= grid_data.rows
           \/ target_col < 0 \/ target_col >= grid_data.cols
        THEN NoCell
        ELSE FirstCellAt(grid_data.cells, target_row, target_col)

_calculate_text_similarity(text1, text2) ==
    IF text1 = text2 THEN text_similarity_exact
    ELSE IF Lower(text1) = Lower(text2) THEN text_similarity_case_insensitive
    ELSE IF Contains(Lower(text2), Lower(text1)) \/ Contains(Lower(text1), Lower(text2))
    THEN text_similarity_partial
    ELSE text_similarity_default

\* float(text) succeeds: an optional sign, digits and at most one point.  The
\* texts of the model hold no exponent, underscore, "inf" or "nan".
IsFloatText(text) ==
    LET body == IF text # <<>> /\ Head(text) \in {"+", "-"} THEN Tail(text) ELSE text
        digits == RemoveChar(body, ".")
    IN  /\ Len(body) - Len(digits) <= 1
        /\ digits # <<>>
        /\ \A i \in DOMAIN digits : digits[i] \in Digits

_is_numeric_value(text) ==
    LET cleaned_text == Strip(text)
    IN  IF cleaned_text = <<>> THEN FALSE
        ELSE IsFloatText(Strip(RemoveChar(cleaned_text, ",")))

\* The error of the double arithmetic of
\* 0.5 + (anchor_similarity - 0.5) * 0.3 (+ 0.2) (+ 0.1), in the encoding unit.
ExtractionRoundingSide(anchor_similarity, has_value, is_numeric) ==
    CASE anchor_similarity = text_similarity_exact /\ has_value -> 1
      [] anchor_similarity = text_similarity_case_insensitive
            /\ has_value /\ ~is_numeric -> 1
      [] anchor_similarity = text_similarity_partial /\ ~has_value -> -1
      [] OTHER -> 0

\* _calculate_extraction_confidence without the weight of a numeric value.
UnweightedNumericConfidence(anchor_cell, value_cell, relationship) ==
    LET anchor_similarity ==
            _calculate_text_similarity(anchor_cell.content, relationship.anchor.content)
        has_value == Strip(value_cell.content) # <<>>
        confidence ==
            confidence_base
            + ((anchor_similarity - 5000) * confidence_anchor_weight) \div 10000
            + (IF has_value THEN confidence_value_weight ELSE 0)
    IN  Min(10000, Max(0,
            confidence + ExtractionRoundingSide(anchor_similarity, has_value, FALSE)))

_calculate_extraction_confidence(anchor_cell, value_cell, relationship) ==
    LET anchor_similarity ==
            _calculate_text_similarity(anchor_cell.content, relationship.anchor.content)
        has_value == Strip(value_cell.content) # <<>>
        is_numeric == _is_numeric_value(value_cell.content)
        confidence ==
            confidence_base
            + ((anchor_similarity - 5000) * confidence_anchor_weight) \div 10000
            + (IF has_value THEN confidence_value_weight ELSE 0)
            + (IF is_numeric THEN confidence_numeric_weight ELSE 0)
    IN  Min(10000, Max(0,
            confidence + ExtractionRoundingSide(anchor_similarity, has_value, is_numeric)))

RECURSIVE ExtractedValues(_, _, _)
ExtractedValues(grid_data, relationship, anchor_cells) ==
    IF anchor_cells = <<>> THEN <<>>
    ELSE LET anchor_cell == Head(anchor_cells)
             value_cell == _find_value_cell_by_position(grid_data, anchor_cell,
                                relationship.relative_position)
             rest == ExtractedValues(grid_data, relationship, Tail(anchor_cells))
         IN  IF value_cell = NoCell THEN rest
             ELSE <<[anchor_cell |-> anchor_cell, value_cell |-> value_cell,
                     confidence |-> _calculate_extraction_confidence(
                                        anchor_cell, value_cell, relationship)]>>
                  \o rest

NoExtraction ==
    [relationship_id |-> "", anchor_content |-> <<>>, extracted_values |-> <<>>,
     extraction_count |-> 0]

_apply_single_relationship(grid_data, relationship) ==
    LET anchor_content == relationship.anchor.content
        anchor_cells == _find_cells_by_content(grid_data, anchor_content)
        extracted_values == ExtractedValues(grid_data, relationship, anchor_cells)
    IN  IF anchor_cells = <<>> \/ extracted_values = <<>> THEN NoExtraction
        ELSE [relationship_id |-> relationship.id,
              anchor_content |-> anchor_content,
              extracted_values |-> extracted_values,
              extraction_count |-> Len(extracted_values)]

RelIds == {"rel_0", "rel_1"}

NoRelationship ==
    [id |-> "", anchor |-> NoCell, value |-> NoCell,
     relative_position |-> [row_offset |-> 0, col_offset |-> 0,
                            direction |-> "", distance |-> 0]]

\* relationship_data of save_relationship
RelationshipData(relationship_id, anchor_cell, value_cell) ==
    [id |-> relationship_id, anchor |-> anchor_cell, value |-> value_cell,
     relative_position |-> _calculate_relative_position(anchor_cell, value_cell)]

\* load_relationship for each id given (ids without a record are skipped),
\* list_relationships when no id is given.
LoadedIds(storage, relationship_ids) ==
    IF relationship_ids # <<>>
    THEN {relationship_ids[i] : i \in DOMAIN relationship_ids}
            \cap {id \in RelIds : storage[id] # NoRelationship}
    ELSE {id \in RelIds : storage[id] # NoRelationship}

apply_relationships(grid_data, relationship_ids, storage) ==
    LET loaded == LoadedIds(storage, relationship_ids)
        applied == {id \in loaded :
                       _apply_single_relationship(grid_data, storage[id]) # NoExtraction}
    IN  [extracted_data |->
             [id \in applied |-> _apply_single_relationship(grid_data, storage[id])],
         applied_relationships |-> Cardinality(applied),
         total_relationships |->
             IF relationship_ids # <<>>
             THEN Cardinality({i \in DOMAIN relationship_ids :
                                  relationship_ids[i] \in loaded})
             ELSE Cardinality(loaded)]

RR_sin == <<T_sinjang, T_170cm>>
RR_bp == <<T_BP, T_72>>
RR_low == <<T_bp, T_blank>>

RelRowPool == {RR_sin, RR_bp, RR_low}

RelTables == UNION {[1..n -> RelRowPool] : n \in 1..MaxRelRows}

\* Scenario B: a table of six rows that holds the anchor "sin jang" at (5,3)
\* and "170cm" at (5,4)
TableScenarioB ==
    [r \in 1..6 |->
        IF r < 6 THEN <<T_blank, T_blank, T_blank, T_blank, T_blank>>
        ELSE <<T_blank, T_blank, T_blank, T_sinjang, T_170cm>>]

\* Tables other than the one the relationship was learned from.
OtherTables == {<<RR_bp, RR_sin>>, <<R_short, RR_low>>, TableScenarioB}

\* A relationship saved earlier: "sin jang" at (0,0) -> "170cm" at (0,1).
StoredBefore ==
    LET grid_data == convert_to_grid_data(<<RR_sin>>)
    IN  RelationshipData("rel_0", grid_data.cells[1], grid_data.cells[2])

NoApplication ==
    [extracted_data |-> <<>>, applied_relationships |-> 0, total_relationships |-> 0]

IdleSession ==
    [pc |-> "idle", id |-> "", rows |-> <<>>, anchor_cell |-> NoCell,
     value_cell |-> NoCell, returned |-> NoRelationship,
     applied_to |-> <<>>, relationship_ids |-> <<>>, result |-> NoApplication]

RelInit ==
    /\ relationships = [id \in RelIds |->
                           IF id = "rel_0" THEN StoredBefore ELSE NoRelationship]
    /\ rel_session = IdleSession

\* save_relationship(relationship_id, anchor_cell, value_cell, table_data)
SaveRelationship(relationship_id, rows, a, v) ==
    LET grid_data == convert_to_grid_data(rows)
        relationship_data ==
            RelationshipData(relationship_id, grid_data.cells[a], grid_data.cells[v])
    IN  /\ rel_session.pc = "idle"
        /\ relationships' = [relationships EXCEPT ![relationship_id] = relationship_data]
        /\ rel_session' = [IdleSession EXCEPT !.pc = "saved",
                                              !.id = relationship_id,
                                              !.rows = rows,
                                              !.anchor_cell = grid_data.cells[a],
                                              !.value_cell = grid_data.cells[v],
                                              !.returned = relationship_data]
        /\ UNCHANGED <<engineVars, scoringVars, analyzerVars, recognitionVars,
                       fieldVars, serviceVars>>

\* apply_relationships(table_data, relationship_ids)
ApplyRelationships(rows, relationship_ids) ==
    /\ rel_session.pc = "saved"
    /\ rel_session' = [rel_session EXCEPT
            !.pc = "applied",
            !.applied_to = rows,
            !.relationship_ids = relationship_ids,
            !.result = apply_relationships(convert_to_grid_data(rows),
                                           relationship_ids, relationships)]
    /\ UNCHANGED <<engineVars, scoringVars, relationships, analyzerVars, recognitionVars,
                   fieldVars, serviceVars>>

\* delete_relationship(relationship_id) of the relationship just applied
DeleteRelationship(relationship_id) ==
    /\ rel_session.pc = "applied"
    /\ relationship_id = rel_session.id
    /\ relationships' = [relationships EXCEPT ![relationship_id] = NoRelationship]
    /\ rel_session' = IdleSession
    /\ UNCHANGED <<engineVars, scoringVars, analyzerVars, recognitionVars,
                   fieldVars, serviceVars>>

RelNext ==
    \/ \E rows \in RelTables :
            \E a, v \in 1..Len(convert_to_grid_data(rows).cells) :
                SaveRelationship("rel_1", rows, a, v)
    \/ \E rows \in {rel_session.rows} \cup OtherTables :
            \E relationship_ids \in {<<>>, <<rel_session.id>>, <<"rel_0">>} :
                ApplyRelationships(rows, relationship_ids)
    \/ \E relationship_id \in RelIds : DeleteRelationship(relationship_id)

\* The relationship of the session was saved and then applied to the table
\* it was learned from.
RoundTripped ==
    /\ rel_session.pc = "applied"
    /\ rel_session.applied_to = rel_session.rows
    /\ rel_session.relationship_ids \in {<<>>, <<rel_session.id>>}

\* The extracted values of the session's relationship that sit on the
\* original value cell.
RecoveredEntries ==
    IF rel_session.id \in DOMAIN rel_session.result.extracted_data
    THEN LET values == rel_session.result.extracted_data[rel_session.id].extracted_values
         IN  {values[i] : i \in {j \in DOMAIN values :
                 /\ values[j].value_cell.row = rel_session.value_cell.row
                 /\ values[j].value_cell.col = rel_session.value_cell.col}}
    ELSE {}

\* C3 (as stated): saving a relationship learned from a pair of cells of a
\* table and applying it to the same table returns, among the extracted values
\* of that relationship, an entry on the original value cell's row and col
\* with confidence at least 0.9, whatever the text of the value cell.
C3_RoundTripAtLeast09 ==
    RoundTripped => \E e \in RecoveredEntries : e.confidence >= 9000

\* C3 (amended): the round trip returns, among the extracted values of the
\* relationship, an entry on the original value cell's row and col found from
\* the original anchor cell; its confidence is 0.95 (at least 0.9) when the
\* value text is numeric, 0.85 when it is not numeric and not empty, and 0.65
\* when it is empty.
C3_RoundTripByValueText ==
    RoundTripped =>
        \E e \in RecoveredEntries :
            /\ e.anchor_cell = rel_session.anchor_cell
            /\ e.value_cell = rel_session.value_cell
            /\ e.confidence =
                 IF _is_numeric_value(rel_session.value_cell.content) THEN 9501
                 ELSE IF rel_session.value_cell.content # <<>> THEN 8501
                 ELSE 6500

\* A round trip whose value cell holds the non-numeric text "170cm", learned
\* from the anchor at (2,0) and the value at (2,1).
C3_Witness ==
    /\ RoundTripped
    /\ rel_session.anchor_cell = [row |-> 2, col |-> 0, content |-> T_sinjang]
    /\ rel_session.value_cell = [row |-> 2, col |-> 1, content |-> T_170cm]
    /\ \E e \in RecoveredEntries : e.confidence = 8501

StoredRelationships ==
    {relationships[id] : id \in {i \in RelIds : relationships[i] # NoRelationship}}

Sign(n) == IF n > 0 THEN 1 ELSE IF n < 0 THEN -1 ELSE 0

\* C10: the relative position learned from an anchor cell and a value cell has
\* row_offset = value.row - anchor.row, col_offset = value.col - anchor.col,
\* distance = |row_offset| + |col_offset|, and the direction named by the sign
\* pattern of the two offsets (same if and only if both are zero).
C10_RelativePosition ==
    \A r \in StoredRelationships :
        LET p == r.relative_position
            signs == <<Sign(r.value.row - r.anchor.row), Sign(r.value.col - r.anchor.col)>>
        IN  /\ p.row_offset = r.value.row - r.anchor.row
            /\ p.col_offset = r.value.col - r.anchor.col
            /\ p.distance = Abs(p.row_offset) + Abs(p.col_offset)
            /\ p.direction =
                 CASE signs = <<0, 1>> -> "right"
                   [] signs = <<0, -1>> -> "left"
                   [] signs = <<1, 0>> -> "down"
                   [] signs = <<-1, 0>> -> "up"
                   [] signs = <<1, 1>> -> "down_right"
                   [] signs = <<1, -1>> -> "down_left"
                   [] signs = <<-1, 1>> -> "up_right"
                   [] signs = <<-1, -1>> -> "up_left"
                   [] signs = <<0, 0>> -> "same"

\* A relationship learned from the anchor at (2,0) and the value at (2,1):
\* offset (0,1), direction right, distance 1.
C10_Witness ==
    \E r \in StoredRelationships :
        /\ r.anchor.row = 2 /\ r.anchor.col = 0
        /\ r.value.row = 2 /\ r.value.col = 1
        /\ r.relative_position =
             [row_offset |-> 0, col_offset |-> 1, direction |-> "right", distance |-> 1]

\* The relationships apply_relationships applied in the session's call
AppliedIds == LoadedIds(relationships, rel_session.relationship_ids)

\* The extracted values returned for a relationship that come from a cell
EntriesFrom(relationship_id, cell) ==
    IF relationship_id \in DOMAIN rel_session.result.extracted_data
    THEN LET values == rel_session.result.extracted_data[relationship_id].extracted_values
         IN  {i \in DOMAIN values :
                 /\ values[i].anchor_cell.row = cell.row
                 /\ values[i].anchor_cell.col = cell.col}
    ELSE {}

ValueOfEntry(relationship_id, i) ==
    rel_session.result.extracted_data[relationship_id].extracted_values[i].value_cell

HoldsAnchor(relationship_id, cell) ==
    Contains(Lower(relationships[relationship_id].anchor.content), Lower(cell.content))

TargetRow(relationship_id, cell) ==
    cell.row + relationships[relationship_id].relative_position.row_offset

TargetCol(relationship_id, cell) ==
    cell.col + relationships[relationship_id].relative_position.col_offset

\* C20 (as stated): for every relationship applied and every cell of the
\* table whose text contains the stored anchor content case-insensitively,
\* exactly one extracted value comes from that cell, with its value_cell at
\* (row + row_offset, col + col_offset), when that target is inside the grid,
\* and none when it is outside; no extracted value comes from a cell that
\* does not contain the anchor content.
C20_EveryMatchInGrid ==
    rel_session.pc = "applied" =>
        LET grid_data == convert_to_grid_data(rel_session.applied_to)
        IN  \A id \in AppliedIds : \A k \in DOMAIN grid_data.cells :
                LET cell == grid_data.cells[k]
                    hits == EntriesFrom(id, cell)
                IN  IF /\ HoldsAnchor(id, cell)
                       /\ TargetRow(id, cell) \in 0..(grid_data.rows - 1)
                       /\ TargetCol(id, cell) \in 0..(grid_data.cols - 1)
                    THEN /\ Cardinality(hits) = 1
                         /\ \A i \in hits :
                               /\ ValueOfEntry(id, i).row = TargetRow(id, cell)
                               /\ ValueOfEntry(id, i).col = TargetCol(id, cell)
                    ELSE hits = {}

\* C20 (amended): the same for every matching cell whose target position
\* holds a cell of the grid, the value_cell being that cell; a match whose
\* target is outside the grid, or inside it at a position a shorter row does
\* not reach, yields nothing.
C20_EveryMatchWithCell ==
    rel_session.pc = "applied" =>
        LET grid_data == convert_to_grid_data(rel_session.applied_to)
        IN  \A id \in AppliedIds : \A k \in DOMAIN grid_data.cells :
                LET cell == grid_data.cells[k]
                    hits == EntriesFrom(id, cell)
                    targets == {t \in DOMAIN grid_data.cells :
                                   /\ grid_data.cells[t].row = TargetRow(id, cell)
                                   /\ grid_data.cells[t].col = TargetCol(id, cell)}
                IN  IF HoldsAnchor(id, cell) /\ targets # {}
                    THEN /\ Cardinality(hits) = 1
                         /\ \A i \in hits : \A t \in targets :
                               ValueOfEntry(id, i) = grid_data.cells[t]
                    ELSE hits = {}

\* Scenario B applied: the stored relationship with offset (0,1) finds its
\* anchor at (5,3) and returns the value at (5,4)
C20_Witness ==
    /\ rel_session.pc = "applied"
    /\ rel_session.applied_to = TableScenarioB
    /\ "rel_0" \in AppliedIds
    /\ relationships["rel_0"].relative_position.row_offset = 0
    /\ relationships["rel_0"].relative_position.col_offset = 1
    /\ \E i \in EntriesFrom("rel_0", [row |-> 5, col |-> 3]) :
           ValueOfEntry("rel_0", i) = [row |-> 5, col |-> 4, content |-> T_170cm]

-----------------------------------------------------------------------------
(* Failures of the storage layer: src/backend/storage/file_storage.py under
   the service calls of relationship_service.py.  A write can fail before the
   file is opened (the file keeps what it held) or after aiofiles.open(..,
   'w') truncated it (the file no longer holds JSON); a read fails on such a
   file or because the file system refuses it. *)

\* A relationship file that json.loads cannot read
UnreadableFile ==
    [id |-> "", anchor |-> NoCell, value |-> NoCell,
     relative_position |-> [row_offset |-> 0, col_offset |-> 0,
                            direction |-> "unreadable", distance |-> 0]]

WriteOutcomes == {"written", "open_failed", "write_failed"}

\* FileStorage.save_relationship: every exception is caught, False is returned
FileStorage_save_relationship(storage, relationship_id, data, outcome) ==
    [storage |-> CASE outcome = "written" ->
                        [storage EXCEPT ![relationship_id] = data]
                   [] outcome = "write_failed" ->
                        [storage EXCEPT ![relationship_id] = UnreadableFile]
                   [] OTHER -> storage,
     returned |-> outcome = "written"]

NoData == [found |-> FALSE]

\* FileStorage.load_relationship: None when there is no file, and None when
\* reading the file raised
FileStorage_load_relationship(storage, relationship_id, read_ok) ==
    IF storage[relationship_id] = NoRelationship THEN NoData
    ELSE IF ~read_ok \/ storage[relationship_id] = UnreadableFile THEN NoData
    ELSE [found |-> TRUE, data |-> storage[relationship_id]]

\* FileStorage.list_relationships: a file that cannot be read is skipped, and
\* the list is empty when the directory cannot be listed
FileStorage_list_relationships(storage, refused, glob_ok) ==
    IF ~glob_ok THEN {}
    ELSE {storage[id] : id \in {i \in RelIds \ refused :
                                   /\ storage[i] # NoRelationship
                                   /\ storage[i] # UnreadableFile}}

\* What a service call gave its caller: a value, or an exception
ServiceReturn(value) == [raised |-> FALSE, value |-> value]

\* RelationshipService.save_relationship: the bool of the storage is not
\* looked at
save_relationship(relationship_data, stored) == ServiceReturn(relationship_data)

\* RelationshipService.load_relationship
load_relationship(storage, relationship_id, read_ok) ==
    ServiceReturn(FileStorage_load_relationship(storage, relationship_id, read_ok))

\* RelationshipService.list_relationships
list_relationships(storage, refused, glob_ok) ==
    ServiceReturn(FileStorage_list_relationships(storage, refused, glob_ok))

PersistTables == {<<RR_sin>>}

Called(op, relationship_id, storage_failed, outcome) ==
    [pc |-> "called", op |-> op, id |-> relationship_id,
     storage_failed |-> storage_failed, raised |-> outcome.raised,
     returned |-> outcome.value]

SaveCall(relationship_id, rows, a, v, outcome) ==
    LET grid_data == convert_to_grid_data(rows)
        relationship_data ==
            RelationshipData(relationship_id, grid_data.cells[a], grid_data.cells[v])
        saved == FileStorage_save_relationship(relationships, relationship_id,
                                               relationship_data, outcome)
    IN  /\ relationships' = saved.storage
        /\ rel_session' = Called("save", relationship_id, ~saved.returned,
                                 save_relationship(relationship_data, saved.returned))
        /\ UNCHANGED <<engineVars, scoringVars, analyzerVars, recognitionVars,
                       fieldVars, serviceVars>>

LoadCall(relationship_id, read_ok) ==
    /\ rel_session' =
         Called("load", relationship_id,
                /\ relationships[relationship_id] # NoRelationship
                /\ ~read_ok \/ relationships[relationship_id] = UnreadableFile,
                load_relationship(relationships, relationship_id, read_ok))
    /\ UNCHANGED <<relationships, engineVars, scoringVars, analyzerVars,
                   recognitionVars,
                   fieldVars, serviceVars>>

ListCall(refused, glob_ok) ==
    /\ rel_session' =
         Called("list", "",
                \/ ~glob_ok
                \/ \E id \in RelIds :
                      /\ relationships[id] # NoRelationship
                      /\ id \in refused \/ relationships[id] = UnreadableFile,
                list_relationships(relationships, refused, glob_ok))
    /\ UNCHANGED <<relationships, engineVars, scoringVars, analyzerVars,
                   recognitionVars,
                   fieldVars, serviceVars>>

PersistNext ==
    \/ \E relationship_id \in RelIds, rows \in PersistTables, outcome \in WriteOutcomes :
            \E a, v \in 1..Len(convert_to_grid_data(rows).cells) :
                SaveCall(relationship_id, rows, a, v, outcome)
    \/ \E relationship_id \in RelIds, read_ok \in BOOLEAN :
            LoadCall(relationship_id, read_ok)
    \/ \E refused \in SUBSET RelIds, glob_ok \in BOOLEAN : ListCall(refused, glob_ok)

\* C12: when the storage layer failed to write or to read a relationship
\* file, save_relationship, load_relationship and list_relationships report
\* the failure to their caller: the call raises, and returns neither the
\* record, nor None, nor a list.
C12_FailuresPropagate ==
    (rel_session.pc = "called" /\ rel_session.storage_failed) => rel_session.raised

-----------------------------------------------------------------------------
(* Table structure analyzer:
   src/backend/core/table_analyzer/structure_analyzer.py.  The rows of a
   TableData are texts (List[List[str]]). *)

IsHangul(c) == c \in Hangul

IsAsciiLetter(c) == c \in LowerCase \cup UpperCase

\* \w of a str pattern: letters, digits, underscore (Hangul syllables are letters)
IsWordChar(c) == IsHangul(c) \/ IsAsciiLetter(c) \/ c \in Digits \/ c = "_"

RECURSIVE HangulPrefix(_)
HangulPrefix(text) ==
    IF text = <<>> \/ ~IsHangul(Head(text)) THEN 0 ELSE 1 + HangulPrefix(Tail(text))

RECURSIVE FirstLine(_)
FirstLine(text) ==
    IF text = <<>> \/ Head(text) = "\n" THEN <<>>
    ELSE <<Head(text)>> \o FirstLine(Tail(text))

\* ^[ga-hih]+(\([ga-hih a-zA-Z0-9\s/]+\))?$
MatchesHangulWithParens(text) ==
    LET k == HangulPrefix(text)
        n == Len(text)
    IN  /\ k >= 1
        /\ \/ k = n
           \/ /\ n >= k + 3
              /\ text[k + 1] = "("
              /\ text[n] = ")"
              /\ \A i \in (k + 2)..(n - 1) :
                    \/ IsHangul(text[i]) \/ IsAsciiLetter(text[i])
                    \/ text[i] \in Digits \/ text[i] \in Whitespace \/ text[i] = "/"

\* ^[a-zA-Z]+(\s+[a-zA-Z]+)*$
MatchesEnglishWords(text) ==
    /\ text # <<>>
    /\ IsAsciiLetter(text[1])
    /\ IsAsciiLetter(text[Len(text)])
    /\ \A i \in DOMAIN text : IsAsciiLetter(text[i]) \/ text[i] \in Whitespace

\* ^[ga-hih]{2,}$
MatchesHangulWord(text) == Len(text) >= 2 /\ HangulPrefix(text) = Len(text)

\* ^[ga-hih]+[0-9]*$
MatchesHangulThenDigits(text) ==
    LET k == HangulPrefix(text)
    IN  k >= 1 /\ \A i \in (k + 1)..Len(text) : text[i] \in Digits

\* .*geomsa.*|.*gyeolgwa.*|.*suchi.*|.*gabs.*  ("." stops at a newline)
MatchesExamKeyword(text) ==
    \E keyword \in {<<"geom", "sa">>, <<"gyeol", "gwa">>, <<"su", "chi">>, <<"gabs">>} :
        Contains(keyword, FirstLine(text))

_is_likely_header(cell_text) ==
    IF Strip(cell_text) = <<>> THEN FALSE
    ELSE LET text == Strip(cell_text)
         IN  IF \/ MatchesHangulWithParens(text) \/ MatchesEnglishWords(text)
                \/ MatchesHangulWord(text) \/ MatchesHangulThenDigits(text)
                \/ MatchesExamKeyword(text)
             THEN TRUE
             ELSE IF IsDigit(RemoveChar(RemoveChar(RemoveChar(text, "."), ","), "-"))
             THEN FALSE
             ELSE IF \A i \in DOMAIN text : ~IsWordChar(text[i])
             THEN FALSE
             ELSE Len(text) > 1 /\ Len(text) < 50

\* HeaderInfo(row, col) of the first row's likely headers
FirstRowHeaders(rows) ==
    LET first_row == rows[1]
        cols == SelectSeq([i \in 1..Len(first_row) |-> i - 1],
                          LAMBDA col_idx : _is_likely_header(first_row[col_idx + 1]))
    IN  [i \in 1..Len(cols) |-> [row |-> 0, col |-> cols[i]]]

\* HeaderInfo(row, col) of the first column's likely headers
FirstColHeaders(rows) ==
    LET idx == SelectSeq([i \in 1..Len(rows) |-> i - 1],
                         LAMBDA row_idx : /\ Len(rows[row_idx + 1]) > 0
                                          /\ _is_likely_header(rows[row_idx + 1][1]))
    IN  [i \in 1..Len(idx) |-> [row |-> idx[i], col |-> 0]]

_detect_header_candidates(rows) ==
    (IF Len(rows) > 0 THEN FirstRowHeaders(rows) ELSE <<>>)
        \o (IF Len(rows) > 1 THEN FirstColHeaders(rows) ELSE <<>>)

_analyze_orientation(rows, headers) ==
    IF headers = <<>> THEN "unknown"
    ELSE LET first_row_headers == Len(SelectSeq(headers, LAMBDA h : h.row = 0))
             first_col_headers == Len(SelectSeq(headers, LAMBDA h : h.col = 0))
             total_cols == IF rows # <<>> THEN Len(rows[1]) ELSE 1
             total_rows == Len(rows)
             \* ratios against 0.5 and 0.3, cross-multiplied
             h_num == IF total_cols > 0 THEN first_row_headers ELSE 0
             h_den == IF total_cols > 0 THEN total_cols ELSE 1
             v_num == IF total_rows > 0 THEN first_col_headers ELSE 0
             v_den == IF total_rows > 0 THEN total_rows ELSE 1
         IN  IF 2 * h_num > h_den /\ 10 * v_num < 3 * v_den THEN "horizontal"
             ELSE IF 2 * v_num > v_den /\ 10 * h_num < 3 * h_den THEN "vertical"
             ELSE IF 10 * h_num > 3 * h_den /\ 10 * v_num > 3 * v_den THEN "mixed"
             ELSE "horizontal"

RECURSIVE CountCells(_, _)
CountCells(rows, empty_only) ==
    IF rows = <<>> THEN 0
    ELSE (IF empty_only
          THEN Len(SelectSeq(Head(rows), LAMBDA cell : Strip(cell) = <<>>))
          ELSE Len(Head(rows)))
         + CountCells(Tail(rows), empty_only)

_evaluate_complexity(rows, headers) ==
    LET total_cells == CountCells(rows, FALSE)
        empty_cells == CountCells(rows, TRUE)
        complexity_score ==
            (IF Len(rows) > 20 \/ (Len(rows) > 0 /\ Len(rows[1]) > 10) THEN 1 ELSE 0)
            + (IF Len(headers) > 10 THEN 1 ELSE 0)
            + (IF total_cells > 0 /\ 10 * empty_cells > 3 * total_cells THEN 1 ELSE 0)
            + (IF Len(rows) > 1 /\ Cardinality({Len(rows[i]) : i \in DOMAIN rows}) > 1
               THEN 1 ELSE 0)
    IN  IF complexity_score <= 1 THEN "simple"
        ELSE IF complexity_score <= 2 THEN "moderate"
        ELSE "complex"

\* max(...) of a list of header rows or columns, -1 for the empty list
MaxHeaderIndex(indices) ==
    IF indices = {} THEN -1 ELSE CHOOSE m \in indices : \A n \in indices : n <= m

_find_data_start_point(headers) ==
    [data_start_row |->
        Max(1, MaxHeaderIndex({headers[i].row : i \in DOMAIN headers}) + 1),
     data_start_col |->
        IF MaxHeaderIndex({headers[i].col : i \in DOMAIN headers}) > 0
        THEN Max(0, MaxHeaderIndex({headers[i].col : i \in DOMAIN headers}) + 1)
        ELSE 0]

\* The analysis of a table of two rows or more with its header candidates
RuleAnalysisWith(rows, potential_headers) ==
    [orientation |-> _analyze_orientation(rows, potential_headers),
     complexity |-> _evaluate_complexity(rows, potential_headers),
     headers |-> potential_headers,
     data_start_row |-> _find_data_start_point(potential_headers).data_start_row,
     data_start_col |-> _find_data_start_point(potential_headers).data_start_col,
     confidence |-> F_0_8,
     notes |-> <<"rule_based_analysis_done">>]

\* The dict of a table with fewer than two rows has no data_start_row and no
\* data_start_col
_rule_based_analysis(rows) ==
    IF Len(rows) < 2
    THEN [orientation |-> "unknown", complexity |-> "simple", headers |-> <<>>,
          confidence |-> F_0_5, notes |-> <<"table_data_insufficient">>]
    ELSE RuleAnalysisWith(rows, _detect_header_candidates(rows))

\* What the header_analysis prompt may answer: nothing (the call failed or
\* the answer was empty), or an orientation, a complexity, headers and a data
\* start with a confidence at or above the 0.6 the merge requires, with no
\* confidence at all, or with an orientation HeaderOrientation does not have.
NoAiResult == [answered |-> FALSE]

AiAnswer(orientation, complexity) ==
    [answered |-> TRUE, orientation |-> orientation, complexity |-> complexity,
     headers |-> <<[row |-> 1, col |-> 1]>>, data_start_row |-> 2,
     data_start_col |-> 1, notes |-> <<"hint_note">>]

WithConfidence(ai_result, confidence) ==
    [k \in DOMAIN ai_result \cup {"confidence"} |->
        IF k = "confidence" THEN confidence ELSE ai_result[k]]

AiResults ==
    {NoAiResult,
     WithConfidence(AiAnswer("vertical", "complex"), F_0_6),
     WithConfidence(AiAnswer("mixed", "complex"), F_0_8),
     WithConfidence(AiAnswer("unknown", "complex"), F_0_8),
     AiAnswer("vertical", "moderate"),
     WithConfidence(AiAnswer("diagonal", "complex"), F_0_8)}

\* ai_result.get('confidence', 0.7)
ConfidenceOf(ai_result) ==
    IF "confidence" \in DOMAIN ai_result THEN ai_result.confidence ELSE F_0_7

\* HeaderOrientation(...) and TableComplexity(...) raise ValueError for a value
\* the enum does not have; the exception is caught and None is returned.
_ai_based_analysis(ai_result) ==
    IF ~ai_result.answered THEN NoAiResult
    ELSE IF \/ ai_result.orientation \notin Orientations
            \/ ai_result.complexity \notin Complexities
    THEN NoAiResult
    ELSE WithConfidence(ai_result, ConfidenceOf(ai_result))

\* primary_analysis.get('data_start_row', 1), .get('data_start_col', 0)
DataStartOf(primary_analysis, key, default) ==
    IF key \in DOMAIN primary_analysis THEN primary_analysis[key] ELSE default

MergedFrom(primary_analysis, note) ==
    [orientation |-> primary_analysis.orientation,
     complexity |-> primary_analysis.complexity,
     headers |-> primary_analysis.headers,
     data_start_row |-> DataStartOf(primary_analysis, "data_start_row", 1),
     data_start_col |-> DataStartOf(primary_analysis, "data_start_col", 0),
     confidence |-> primary_analysis.confidence,
     analysis_notes |-> Append(primary_analysis.notes, note)]

\* A merge that takes the hint at confidence 0.6 as well
MergeAtThreshold(rule_analysis, ai_analysis) ==
    IF ai_analysis.answered /\ ai_analysis.confidence >= F_0_6
    THEN MergedFrom(ai_analysis, "ai_analysis_used")
    ELSE MergedFrom(rule_analysis, "rule_based_analysis_used")

_merge_analysis_results(rule_analysis, ai_analysis) ==
    IF ai_analysis.answered /\ ai_analysis.confidence > F_0_6
    THEN MergedFrom(ai_analysis, "ai_analysis_used")
    ELSE MergedFrom(rule_analysis, "rule_based_analysis_used")

\* An analyzer that asks the AI whenever the service is configured.
IgnoresUseAi(use_ai, is_ai_available) == is_ai_available

\* The AI is asked only when the caller allows it and the service is configured.
AiConsulted(use_ai, is_ai_available) == use_ai /\ is_ai_available

\* Tables under analysis: a first row followed by up to MaxBodyRows equal
\* body rows.  R_sin is all headers, A_nums has none, and in A_lead every cell
\* but the first is a header.
A_nums == <<T_72, T_120>>

A_lead == <<T_120, T_gyeolgwa, T_BP>>

FirstRows == {R_sin, A_nums, A_lead}

BodyRows == {R_sin, A_nums}

\* A first row of one header and three numbers
A_wide == <<T_sinjang, T_72, T_120, T_72>>

AnalysisTables ==
    {<<first>> \o [i \in 1..n |-> body] :
        first \in FirstRows, body \in BodyRows, n \in 0..MaxBodyRows}
        \cup {<<>>, <<A_wide, A_nums>>}

analyze_table_structure(rows, use_ai, is_ai_available, ai_result) ==
    _merge_analysis_results(_rule_based_analysis(rows),
                            IF AiConsulted(use_ai, is_ai_available)
                            THEN _ai_based_analysis(ai_result)
                            ELSE NoAiResult)

NoAnalysis == [done |-> FALSE]

\* The analysis returned, with the call's arguments and what the prompt answered
Analysed(rows, use_ai, ai_result, analysis) ==
    [done |-> TRUE, rows |-> rows, use_ai |-> use_ai, ai_result |-> ai_result,
     orientation |-> analysis.orientation, complexity |-> analysis.complexity,
     headers |-> analysis.headers, data_start_row |-> analysis.data_start_row,
     data_start_col |-> analysis.data_start_col,
     confidence |-> analysis.confidence, analysis_notes |-> analysis.analysis_notes]

AnalyzerInit == analyses = [kept |-> NoAnalysis, latest |-> NoAnalysis]

\* One call of analyze_table_structure.  The caller may keep the result of a
\* rule-based call to compare later calls with.
AnalyzeTableStructure(rows, use_ai, is_ai_available, ai_result, keep) ==
    LET run == Analysed(rows, use_ai, ai_result,
                        analyze_table_structure(rows, use_ai, is_ai_available, ai_result))
    IN  /\ analyses' = [kept |-> IF keep /\ ~use_ai THEN run ELSE analyses.kept,
                        latest |-> run]
        /\ UNCHANGED <<engineVars, scoringVars, relVars, recognitionVars,
                       fieldVars, serviceVars>>

AnalyzerNext ==
    \E rows \in AnalysisTables, use_ai \in BOOLEAN, is_ai_available \in BOOLEAN :
        \E ai_result \in (IF AiConsulted(use_ai, is_ai_available)
                          THEN AiResults ELSE {NoAiResult}) :
            \E keep \in (IF use_ai THEN {FALSE} ELSE BOOLEAN) :
                AnalyzeTableStructure(rows, use_ai, is_ai_available, ai_result, keep)

C14_DegradedAnalysis ==
    (analyses.latest.done /\ Len(analyses.latest.rows) < 2)
        => /\ analyses.latest.orientation = "unknown"
           /\ analyses.latest.complexity = "simple"
           /\ analyses.latest.confidence = 0

\* The number of header-like cells of the first row and of the first column,
\* each cell counted once
HeaderLikeInFirstRow(rows) ==
    Cardinality({c \in 1..Len(rows[1]) : _is_likely_header(rows[1][c])})

HeaderLikeInFirstCol(rows) ==
    Cardinality({r \in 1..Len(rows) :
                    Len(rows[r]) > 0 /\ _is_likely_header(rows[r][1])})

\* C18: the rule-based orientation of a table of two rows or more follows
\* horizontal_ratio = header-like cells of the first row / total_cols and
\* vertical_ratio = header-like cells of the first column / total_rows, each
\* cell counted once: UNKNOWN without header candidate, else HORIZONTAL for
\* horizontal > 0.5 and vertical < 0.3, else VERTICAL for vertical > 0.5 and
\* horizontal < 0.3, else MIXED for both > 0.3, else HORIZONTAL; and the
\* header counts the ratios are taken from exceed neither total_cols nor
\* total_rows.
C18_OrientationDecision ==
    (/\ analyses.latest.done
     /\ ~analyses.latest.use_ai
     /\ Len(analyses.latest.rows) >= 2)
        => LET rows == analyses.latest.rows
               total_cols == Len(rows[1])
               total_rows == Len(rows)
               h == HeaderLikeInFirstRow(rows)
               v == HeaderLikeInFirstCol(rows)
           IN  /\ analyses.latest.orientation =
                    (IF h = 0 /\ v = 0 THEN "unknown"
                     ELSE IF 2 * h > total_cols /\ 10 * v < 3 * total_rows
                     THEN "horizontal"
                     ELSE IF 2 * v > total_rows /\ 10 * h < 3 * total_cols
                     THEN "vertical"
                     ELSE IF 10 * h > 3 * total_cols /\ 10 * v > 3 * total_rows
                     THEN "mixed"
                     ELSE "horizontal")
               /\ Len(SelectSeq(analyses.latest.headers, LAMBDA x : x.row = 0))
                      <= total_cols
               /\ Len(SelectSeq(analyses.latest.headers, LAMBDA x : x.col = 0))
                      <= total_rows

\* The hint a call obtained: the prompt answered with an orientation and a
\* complexity the enums have
HintObtained(analysis) ==
    /\ analysis.ai_result.answered
    /\ analysis.ai_result.orientation \in Orientations
    /\ analysis.ai_result.complexity \in Complexities

SameAnalysis(analysis, source, data_start_row, data_start_col, confidence) ==
    /\ analysis.orientation = source.orientation
    /\ analysis.complexity = source.complexity
    /\ analysis.headers = source.headers
    /\ analysis.data_start_row = data_start_row
    /\ analysis.data_start_col = data_start_col
    /\ analysis.confidence = confidence

C30_DataStartInGrid ==
    (/\ analyses.latest.done
     /\ ~analyses.latest.use_ai
     /\ Len(analyses.latest.rows) >= 2)
        => /\ 1 <= analyses.latest.data_start_row
           /\ analyses.latest.data_start_row < Len(analyses.latest.rows)
           /\ 0 <= analyses.latest.data_start_col
           /\ analyses.latest.data_start_col < Len(analyses.latest.rows[1])

-----------------------------------------------------------------------------
(* Key recognition: src/backend/services/extraction_service.py.  The catalog
   file data/key_mapping_database.json is either absent or holds what POST
   /key-database saved.  Catalogs keep their insertion order: a catalog is a
   sequence of categories and a category a sequence of keys.  The catalogs
   modelled declare patterns as lists, so no key has expected_fields and
   detected_fields stays empty. *)

exact_match == 9500

prefix_match == 8000

suffix_match == 7000

word_boundary_match == 6000

partial_match == 4000

minimum_pattern_length == 3

maximum_cell_length == 20

similarity_threshold == 4000

partial_match_bonus == 3000

korean_bonus == 2000

korean_similarity_threshold == 3000

KeyData(key_name, patterns) == [key_name |-> key_name, patterns |-> patterns]

NoFile == [exists |-> FALSE]

SavedFile(key_database) == [exists |-> TRUE, content |-> key_database]

T_confidence_thresholds == <<"c", "o", "n", "f", "i", "d", "e", "n", "c", "e", "_", "t", "h", "r", "e", "s", "h", "o", "l", "d", "s">>

T_text_processing == <<"t", "e", "x", "t", "_", "p", "r", "o", "c", "e", "s", "s", "i", "n", "g">>

\* The _extraction_settings section of a catalog file: one more entry of the
\* JSON object, whose keys are the names of its two subsections
SettingsSection(extraction_settings) ==
    [category_name |-> "_extraction_settings",
     keys |-> <<KeyData(T_confidence_thresholds, <<>>),
                KeyData(T_text_processing, <<>>)>>,
     settings |-> extraction_settings]

\* category_name.startswith("_")
IsSettingsSection(category) == category.category_name = "_extraction_settings"

minimum_acceptance == 4000

\* The values the code falls back to: thresholds.get(name, default) and
\* text_settings.get(name, default)
DefaultExtractionSettings ==
    [confidence_thresholds |->
        [exact_match |-> exact_match, prefix_match |-> prefix_match,
         suffix_match |-> suffix_match,
         word_boundary_match |-> word_boundary_match,
         partial_match |-> partial_match,
         minimum_acceptance |-> minimum_acceptance,
         similarity_threshold |-> similarity_threshold],
     text_processing |->
        [minimum_pattern_length |-> minimum_pattern_length,
         maximum_cell_length |-> maximum_cell_length]]

\* The _extraction_settings section of the file; defaults when the file or
\* the section is missing
_load_extraction_settings(key_db) ==
    IF key_db.exists /\ \E i \in DOMAIN key_db.content : IsSettingsSection(key_db.content[i])
    THEN key_db.content[CHOOSE i \in DOMAIN key_db.content :
                            IsSettingsSection(key_db.content[i])].settings
    ELSE DefaultExtractionSettings

\* The catalog returned when the file is absent
DefaultKeyMappingDb ==
    <<[category_name |-> "basic",
       keys |-> <<
        KeyData(<<"ki">>,
                <<<<"ki">>, <<"k", "e", "y">>, <<"hang", "mok">>,
                  <<"gu", "bun">>>>),
        KeyData(<<"sin", "jang">>,
                <<<<"sin", "jang">>, <<"ki">>,
                  <<"h", "e", "i", "g", "h", "t">>>>),
        KeyData(<<"che", "jung">>,
                <<<<"che", "jung">>, <<"mom", "mu", "ge">>,
                  <<"w", "e", "i", "g", "h", "t">>>>),
        KeyData(<<"hyeol", "ap">>,
                <<<<"hyeol", "ap">>,
                  <<"b", "l", "o", "o", "d", " ", "p", "r", "e", "s", "s", "u", "r", "e">>,
                  <<"B", "P">>>>),
        KeyData(<<"hyeol", "dang">>,
                <<<<"hyeol", "dang">>, <<"g", "l", "u", "c", "o", "s", "e">>,
                  <<"dang", "nyo">>>>),
        KeyData(<<"seong", "myeong">>,
                <<<<"seong", "myeong">>, <<"yi", "reum">>,
                  <<"n", "a", "m", "e">>>>),
        KeyData(<<"na", "yi">>,
                <<<<"na", "yi">>, <<"a", "g", "e">>, <<"yeon", "ryeong">>>>),
        KeyData(<<"seong", "byeol">>,
                <<<<"seong", "byeol">>, <<"g", "e", "n", "d", "e", "r">>,
                  <<"s", "e", "x">>>>)>>]>>

_load_key_mapping_database(key_db) ==
    IF ~key_db.exists THEN DefaultKeyMappingDb ELSE key_db.content

\* Classification keywords in the order of category_priority
DefaultClassificationKeywords ==
    <<
      [category |-> "personal",
       keywords |-> <<<<"yi", "reum">>, <<"seong", "myeong">>, <<"na", "yi">>,
                     <<"yeon", "ryeong">>, <<"seong", "byeol">>>>],
      [category |-> "temporal",
       keywords |-> <<<<"yi", "jeon">>, <<"gwa", "geo">>, <<"jak", "nyeon">>,
                     <<"jeon", "nyeon">>, <<"nyeon", "do">>,
                     <<"gyeol", "gwa">>>>],
      [category |-> "opinion",
       keywords |-> <<<<"so", "gyeon">>, <<"ui", "gyeon">>,
                     <<"pan", "jeong">>, <<"jin", "dan">>>>],
      [category |-> "basic",
       keywords |-> <<<<"sin", "jang">>, <<"ki">>, <<"che", "jung">>,
                     <<"hyeol", "ap">>, <<"hyeol", "dang">>>>],
      [category |-> "cancer",
       keywords |-> <<<<"am">>, <<"jong", "yang">>, <<"ak", "seong">>,
                     <<"yang", "seong">>>>],
      [category |-> "comprehensive",
       keywords |-> <<<<"jong", "hap">>, <<"jeon", "che">>, <<"tong", "hap">>>>],
      [category |-> "special",
       keywords |-> <<<<"geom", "sa">>, <<"so", "gyeon">>, <<"pan", "jeong">>,
                     <<"mun", "jin">>, <<"chwal", "yeong">>>>]>>

MinimalClassificationKeywords ==
    <<
      [category |-> "personal",
       keywords |-> <<<<"yi", "reum">>, <<"seong", "myeong">>>>],
      [category |-> "basic",
       keywords |-> <<<<"sin", "jang">>, <<"che", "jung">>>>],
      [category |-> "special",
       keywords |-> <<<<"geom", "sa">>, <<"so", "gyeon">>>>]>>

\* The saved catalogs have no _category_classification_keywords section
_load_category_classification_keywords(key_db) ==
    IF ~key_db.exists THEN MinimalClassificationKeywords
    ELSE DefaultClassificationKeywords

NoPatternMatch == [matched |-> FALSE]

\* \b of re at the gap before s[k]: exactly one side is a word character
AtWordBoundary(s, k) ==
    LET before == k > 1 /\ IsWordChar(s[k - 1])
        after == k <= Len(s) /\ IsWordChar(s[k])
    IN  before # after

SearchWordBoundary(pattern, s) ==
    \E i \in 0..(Len(s) - Len(pattern)) :
        /\ SubSeq(s, i + 1, i + Len(pattern)) = pattern
        /\ AtWordBoundary(s, i + 1)
        /\ AtWordBoundary(s, i + Len(pattern) + 1)

\* The tiers of one cleaned pattern against one cleaned cell text
MatchTier(extraction_settings, cell_clean, pattern_clean) ==
    IF cell_clean = pattern_clean
    THEN [matched |-> TRUE, match_type |-> "exact",
          confidence |-> extraction_settings.confidence_thresholds.exact_match]
    ELSE IF StartsWith(cell_clean, pattern_clean)
    THEN [matched |-> TRUE, match_type |-> "prefix",
          confidence |-> extraction_settings.confidence_thresholds.prefix_match]
    ELSE IF EndsWith(cell_clean, pattern_clean)
    THEN [matched |-> TRUE, match_type |-> "suffix",
          confidence |-> extraction_settings.confidence_thresholds.suffix_match]
    ELSE IF /\ Contains(pattern_clean, cell_clean)
            /\ Len(pattern_clean) >=
                    extraction_settings.text_processing.minimum_pattern_length
    THEN IF SearchWordBoundary(pattern_clean, cell_clean)
         THEN [matched |-> TRUE, match_type |-> "word_boundary",
               confidence |->
                 extraction_settings.confidence_thresholds.word_boundary_match]
         ELSE [matched |-> TRUE, match_type |-> "partial",
               confidence |-> extraction_settings.confidence_thresholds.partial_match]
    ELSE NoPatternMatch

\* cell_clean = cell_text.strip().lower(), pattern_clean = pattern.strip().lower()
MatchPattern(extraction_settings, cell_text, pattern) ==
    MatchTier(extraction_settings, Lower(Strip(cell_text)), Lower(Strip(pattern)))

\* The first pattern of a key that matches ends the key's pattern loop
RECURSIVE FirstPatternMatch(_, _, _)
FirstPatternMatch(extraction_settings, cell_text, patterns) ==
    IF patterns = <<>> THEN NoPatternMatch
    ELSE IF MatchPattern(extraction_settings, cell_text, Head(patterns)).matched
    THEN MatchPattern(extraction_settings, cell_text, Head(patterns))
    ELSE FirstPatternMatch(extraction_settings, cell_text, Tail(patterns))

\* Every key of a category is tried, also after an earlier key matched
KeyMatch(key_data, m) ==
    IF m.matched
    THEN <<[key_name |-> key_data.key_name, confidence |-> m.confidence,
            match_type |-> m.match_type]>>
    ELSE <<>>

RECURSIVE KeyMatches(_, _, _)
KeyMatches(extraction_settings, cell_text, category_keys) ==
    IF category_keys = <<>> THEN <<>>
    ELSE KeyMatch(Head(category_keys),
                  FirstPatternMatch(extraction_settings, cell_text,
                                    Head(category_keys).patterns))
         \o KeyMatches(extraction_settings, cell_text, Tail(category_keys))

\* The category loop stops after the first category in which a key matched
RECURSIVE CellMatches(_, _, _)
CellMatches(extraction_settings, cell_text, key_mapping_db) ==
    IF key_mapping_db = <<>> THEN <<>>
    ELSE IF IsSettingsSection(Head(key_mapping_db))
    THEN CellMatches(extraction_settings, cell_text, Tail(key_mapping_db))
    ELSE IF KeyMatches(extraction_settings, cell_text, Head(key_mapping_db).keys) # <<>>
    THEN KeyMatches(extraction_settings, cell_text, Head(key_mapping_db).keys)
    ELSE CellMatches(extraction_settings, cell_text, Tail(key_mapping_db))

RECURSIVE CategoryOfKey(_, _)
CategoryOfKey(key_name, key_mapping_db) ==
    IF key_mapping_db = <<>> THEN "unknown"
    ELSE IF IsSettingsSection(Head(key_mapping_db))
    THEN CategoryOfKey(key_name, Tail(key_mapping_db))
    ELSE IF \E i \in DOMAIN Head(key_mapping_db).keys :
                Head(key_mapping_db).keys[i].key_name = key_name
    THEN Head(key_mapping_db).category_name
    ELSE CategoryOfKey(key_name, Tail(key_mapping_db))

AnchorCell(cell_text, cell) ==
    [text |-> cell_text, page_number |-> cell.page_number,
     row |-> cell.row, col |-> cell.col]

\* recognized_key with the fields of a key found for the first time
NewRecognizedKey(recognized_keys, m, cell_text, cell, now, key_mapping_db) ==
    [id |-> <<m.key_name, cell.page_number, cell.row, cell.col, now,
              Len(recognized_keys)>>,
     key |-> m.key_name,
     category |-> CategoryOfKey(m.key_name, key_mapping_db),
     anchor_cell |-> AnchorCell(cell_text, cell),
     value_cell |-> [page_number |-> cell.page_number,
                     row |-> cell.row + 1, col |-> cell.col],
     relative_position |-> "next_row",
     table_id |-> <<cell.page_number, cell.row>>,
     confidence |-> m.confidence,
     match_type |-> m.match_type,
     is_complex |-> FALSE,
     multiple_found |-> FALSE,
     alternative_locations |-> <<>>,
     total_locations |-> 1,
     selected_location |-> "primary"]

\* A matched key that is always appended as a record of its own
RecordPerOccurrence(recognized_keys, m, cell_text, cell, now, key_mapping_db) ==
    Append(recognized_keys,
           NewRecognizedKey(recognized_keys, m, cell_text, cell, now, key_mapping_db))

\* A matched key: a new record, or one more location of a key already found
AddRecognizedKey(recognized_keys, m, cell_text, cell, now, key_mapping_db) ==
    LET existing == {i \in DOMAIN recognized_keys : recognized_keys[i].key = m.key_name}
    IN  IF existing # {}
        THEN LET i == CHOOSE i \in existing : \A j \in existing : i <= j
                 locations ==
                     Append(recognized_keys[i].alternative_locations,
                            [anchor_cell |-> AnchorCell(cell_text, cell),
                             confidence |-> m.confidence,
                             match_type |-> m.match_type])
             IN  [recognized_keys EXCEPT
                    ![i] = [@ EXCEPT !.alternative_locations = locations,
                                     !.multiple_found = TRUE,
                                     !.total_locations = 1 + Len(locations)]]
        ELSE Append(recognized_keys,
                    NewRecognizedKey(recognized_keys, m, cell_text, cell, now,
                                     key_mapping_db))

RECURSIVE AddRecognizedKeys(_, _, _, _, _, _)
AddRecognizedKeys(recognized_keys, matches, cell_text, cell, now, key_mapping_db) ==
    IF matches = <<>> THEN recognized_keys
    ELSE AddRecognizedKeys(
            AddRecognizedKey(recognized_keys, Head(matches), cell_text, cell, now,
                             key_mapping_db),
            Tail(matches), cell_text, cell, now, key_mapping_db)

\* difflib.SequenceMatcher: the longest common block, the earliest in a and
\* then in b, and recursively the blocks to its left and to its right.
RECURSIVE MatchingCharacters(_, _)
MatchingCharacters(a, b) ==
    IF a = <<>> \/ b = <<>> THEN 0
    ELSE LET Block(i, j, k) == SubSeq(a, i, i + k - 1) = SubSeq(b, j, j + k - 1)
             sizes == {k \in 1..Min(Len(a), Len(b)) :
                          \E i \in 1..(Len(a) - k + 1), j \in 1..(Len(b) - k + 1) :
                              Block(i, j, k)}
         IN  IF sizes = {} THEN 0
             ELSE LET k == CHOOSE x \in sizes : \A y \in sizes : y <= x
                      starts == {i \in 1..(Len(a) - k + 1) :
                                    \E j \in 1..(Len(b) - k + 1) : Block(i, j, k)}
                      i == CHOOSE x \in starts : \A y \in starts : x <= y
                      others == {j \in 1..(Len(b) - k + 1) : Block(i, j, k)}
                      j == CHOOSE x \in others : \A y \in others : x <= y
                  IN  k + MatchingCharacters(SubSeq(a, 1, i - 1), SubSeq(b, 1, j - 1))
                        + MatchingCharacters(SubSeq(a, i + k, Len(a)),
                                             SubSeq(b, j + k, Len(b)))

Chars(text) == {text[i] : i \in DOMAIN text}

_check_korean_similarity(text1, text2, threshold) ==
    LET common_chars == Chars(text1) \cap Chars(text2)
        most == Max(Cardinality(Chars(text1)), Cardinality(Chars(text2)))
    IN  most > 0 /\ 10000 * Cardinality(common_chars) > threshold * most

\* ratio() plus the bonuses, as the fraction num / (10000 * den)
PatternSimilarity(anchor_lower, pattern_lower) ==
    LET total == Len(anchor_lower) + Len(pattern_lower)
        den == IF total = 0 THEN 1 ELSE total
        ratio == IF total = 0 THEN 10000
                 ELSE 20000 * MatchingCharacters(anchor_lower, pattern_lower)
        partial == IF \/ Contains(anchor_lower, pattern_lower)
                      \/ Contains(pattern_lower, anchor_lower)
                   THEN partial_match_bonus ELSE 0
        korean == IF _check_korean_similarity(anchor_lower, pattern_lower,
                                              korean_similarity_threshold)
                  THEN korean_bonus ELSE 0
    IN  [num |-> ratio + (partial + korean) * den, den |-> den]

\* Iterating the catalog yields (category name, category), and iterating a
\* category yields its key names: those are the "patterns" compared here,
\* and the suggestion is the name of a category.
CatalogNames(key_mapping_db) ==
    LET NamesOf(category) ==
            [i \in DOMAIN category.keys |->
                [key_name |-> category.category_name,
                 pattern |-> category.keys[i].key_name]]
        RECURSIVE All(_)
        All(db) == IF db = <<>> THEN <<>> ELSE NamesOf(Head(db)) \o All(Tail(db))
    IN  All(key_mapping_db)

NoSuggestion == "<None>"

\* if similarity > best_similarity: the best match so far is replaced
BetterOf(best, similarity, key_name) ==
    IF similarity.num * best.den > best.num * similarity.den
    THEN [num |-> similarity.num, den |-> similarity.den, suggested_key |-> key_name]
    ELSE best

RECURSIVE MostSimilar(_, _, _)
MostSimilar(anchor_lower, names, best) ==
    IF names = <<>> THEN best
    ELSE MostSimilar(anchor_lower, Tail(names),
            BetterOf(best,
                     PatternSimilarity(anchor_lower, Strip(Lower(Head(names).pattern))),
                     Head(names).key_name))

\* The best match is suggested when it reaches the similarity threshold
SuggestionOf(best, threshold) ==
    IF best.num >= threshold * best.den
    THEN best.suggested_key ELSE NoSuggestion

\* The settings are read from the file again on every call
_analyze_pattern_similarity(anchor_text, key_mapping_db, key_db) ==
    SuggestionOf(MostSimilar(Strip(Lower(anchor_text)), CatalogNames(key_mapping_db),
                             [num |-> 0, den |-> 1, suggested_key |-> NoSuggestion]),
                 _load_extraction_settings(key_db).confidence_thresholds.similarity_threshold)

RECURSIVE CategoryByKeyword(_, _)
CategoryByKeyword(key_lower, classification_keywords) ==
    IF classification_keywords = <<>> THEN "special"
    ELSE LET entry == Head(classification_keywords)
         IN  IF \E i \in DOMAIN entry.keywords :
                    Contains(Lower(entry.keywords[i]), key_lower)
             THEN entry.category
             ELSE CategoryByKeyword(key_lower, Tail(classification_keywords))

_estimate_new_key_category(key_text, key_db) ==
    CategoryByKeyword(Strip(Lower(key_text)),
                      _load_category_classification_keywords(key_db))

\* data/new_keys_discovered.json: a key name is stored once
_save_new_key(discovered_keys, key_name, anchor_text, category) ==
    IF \E i \in DOMAIN discovered_keys : discovered_keys[i].key_name = key_name
    THEN discovered_keys
    ELSE Append(discovered_keys, [key_name |-> key_name, anchor_text |-> anchor_text,
                                  category |-> category])

\* The cells of the tables in scan order.  A table without rows is skipped;
\* the header row, when there is one, is row 0.
CellsOfTable(table) ==
    LET all_rows == (IF table.headers # <<>> THEN <<table.headers>> ELSE <<>>)
                        \o table.rows
        RowCells(row_idx) ==
            [c \in 1..Len(all_rows[row_idx + 1]) |->
                [page_number |-> table.page_number, row |-> row_idx, col |-> c - 1,
                 cell_value |-> all_rows[row_idx + 1][c]]]
        RECURSIVE From(_)
        From(row_idx) ==
            IF row_idx >= Len(all_rows) THEN <<>>
            ELSE RowCells(row_idx) \o From(row_idx + 1)
    IN  IF table.rows = <<>> THEN <<>> ELSE From(0)

RECURSIVE CellsOfTables(_)
CellsOfTables(tables) ==
    IF tables = <<>> THEN <<>>
    ELSE CellsOfTable(Head(tables)) \o CellsOfTables(Tail(tables))

HasDigit(text) == \E i \in DOMAIN text : text[i] \in Digits

Location(cell) == [page_number |-> cell.page_number, row |-> cell.row, col |-> cell.col]

\* What the cell loop learns about one cell from the catalog alone: the
\* matching keys, or for an unmatched short text without digits the key
\* suggested for it, or else the category estimated for it as a new key.
UnmatchedCellFindings(cell, cell_text, suggested_key, key_db) ==
    [cell |-> cell, cell_text |-> cell_text, matches |-> <<>>, candidate |-> TRUE,
     suggested_key |-> suggested_key,
     suggested_category |->
        IF suggested_key = NoSuggestion
        THEN _estimate_new_key_category(cell_text, key_db) ELSE ""]

MatchedCellFindings(cell, cell_text, matches, key_mapping_db, extraction_settings, key_db) ==
    IF /\ matches = <<>>
       /\ Len(cell_text) > 1
       /\ Len(cell_text) < extraction_settings.text_processing.maximum_cell_length
       /\ ~HasDigit(cell_text)
    THEN UnmatchedCellFindings(cell, cell_text,
                               _analyze_pattern_similarity(cell_text, key_mapping_db,
                                                           key_db),
                               key_db)
    ELSE [cell |-> cell, cell_text |-> cell_text, matches |-> matches,
          candidate |-> FALSE, suggested_key |-> NoSuggestion,
          suggested_category |-> ""]

CellTextFindings(cell, cell_text, key_mapping_db, extraction_settings, key_db) ==
    MatchedCellFindings(cell, cell_text,
                        CellMatches(extraction_settings, cell_text, key_mapping_db),
                        key_mapping_db, extraction_settings, key_db)

CellFindings(cell, key_mapping_db, extraction_settings, key_db) ==
    CellTextFindings(cell, Strip(cell.cell_value), key_mapping_db,
                     extraction_settings, key_db)

\* Empty cell values are passed over
RECURSIVE FindingsOfCells(_, _, _, _)
FindingsOfCells(cells, key_mapping_db, extraction_settings, key_db) ==
    IF cells = <<>> THEN <<>>
    ELSE (IF Head(cells).cell_value = <<>> THEN <<>>
          ELSE <<CellFindings(Head(cells), key_mapping_db, extraction_settings,
                              key_db)>>)
         \o FindingsOfCells(Tail(cells), key_mapping_db, extraction_settings, key_db)

\* The body of the cell loop: the catalog match, or else a suggestion
RecognizeCell(found, findings, key_mapping_db, now) ==
    IF findings.matches # <<>>
    THEN [found EXCEPT !.recognized_keys =
             AddRecognizedKeys(@, findings.matches, findings.cell_text,
                               findings.cell, now, key_mapping_db)]
    ELSE IF ~findings.candidate THEN found
    ELSE IF findings.suggested_key # NoSuggestion
    THEN [found EXCEPT !.pattern_suggestions =
             Append(@, [anchor_text |-> findings.cell_text,
                        suggested_key |-> findings.suggested_key,
                        location |-> Location(findings.cell),
                        confidence |-> F_0_6])]
    ELSE [found EXCEPT
            !.new_key_suggestions =
                Append(@, [key_name |-> findings.cell_text,
                           suggested_category |-> findings.suggested_category,
                           location |-> Location(findings.cell),
                           confidence |-> F_0_5,
                           patterns |-> <<findings.cell_text>>]),
            !.discovered_keys =
                _save_new_key(@, findings.cell_text, findings.cell_text,
                              findings.suggested_category)]

RECURSIVE RecognizeCells(_, _, _, _)
RecognizeCells(found, findings, key_mapping_db, now) ==
    IF findings = <<>> THEN found
    ELSE RecognizeCells(RecognizeCell(found, Head(findings), key_mapping_db, now),
                        Tail(findings), key_mapping_db, now)

\* Catalogs saved through POST /key-database
HeightCatalog ==
    <<[category_name |-> "basic",
       keys |-> <<KeyData(T_sinjang, <<T_sinjang, <<"h", "e", "i", "g", "h", "t">>>>)>>],
      [category_name |-> "special",
       keys |-> <<KeyData(T_BP, <<T_BP>>)>>]>>

SavedCatalogs == {HeightCatalog}

KeyDbFiles == {NoFile} \cup {SavedFile(c) : c \in SavedCatalogs}

T_sinjang_cm == <<"sin", "jang", "(", "c", "m", ")">>

T_gijun_sinjang == <<"gi", "jun", "sin", "jang">>

T_paren_height == <<"(", "H", "e", "i", "g", "h", "t", ")">>

T_xheightx == <<"x", "h", "e", "i", "g", "h", "t", "x">>

T_geomsa == <<"geom", "sa">>

T_sin_jang == <<"sin", " ", "jang">>

\* Scenario A: header row and one record
TableScenarioA ==
    [page_number |-> 1, headers |-> <<T_hangmok, T_gyeolgwa>>, rows |-> <<R_sin>>]

\* one cell per match tier below exact
TableTiers ==
    [page_number |-> 1, headers |-> <<>>,
     rows |-> <<<<T_sinjang_cm, T_gijun_sinjang>>, <<T_paren_height, T_xheightx>>>>]

\* cells no catalog pattern matches, and a second place of the key sinjang
TableNewKeys ==
    [page_number |-> 2, headers |-> <<>>,
     rows |-> <<<<T_geomsa, T_blank>>, <<T_sin_jang, T_sinjang>>, <<T_BP, T_72>>>>]

TableNoRows == [page_number |-> 3, headers |-> <<T_hangmok>>, rows |-> <<>>]

\* What extract_tables returns for the files recognition is run on
Documents ==
    {<<TableScenarioA>>, <<TableTiers>>, <<TableNewKeys, TableNoRows>>,
     <<TableScenarioA, TableNewKeys>>, <<TableNewKeys, TableScenarioA, TableTiers>>}

\* A run that starts from the keys the run before it found
KeysOfLatestRun ==
    IF recognition.latest.done THEN recognition.latest.result.recognized_keys ELSE <<>>

\* recognized_keys = [] at the start of a run
NoKeysYet == <<>>

\* The result recognize_keys returns, and the discovered keys it has saved
RecognitionResult(tables, found) ==
    [recognized_keys |-> found.recognized_keys,
     total_found |-> Len(found.recognized_keys),
     pages_analyzed |-> Cardinality({tables[i].page_number : i \in DOMAIN tables}),
     tables_analyzed |-> Len(tables),
     pattern_suggestions |-> found.pattern_suggestions,
     suggestions_count |-> Len(found.pattern_suggestions),
     new_key_suggestions |-> found.new_key_suggestions,
     new_keys_count |-> Len(found.new_key_suggestions),
     discovered_keys |-> found.discovered_keys]

\* The scan under the catalog and the settings loaded before it; key_db is
\* the file as the cells find it when they read it again
RecognizeWithCatalog(tables, key_mapping_db, extraction_settings, key_db, discovered_keys, now) ==
    RecognitionResult(tables,
        RecognizeCells([recognized_keys |-> NoKeysYet,
                        pattern_suggestions |-> <<>>,
                        new_key_suggestions |-> <<>>,
                        discovered_keys |-> discovered_keys],
                       FindingsOfCells(CellsOfTables(tables), key_mapping_db,
                                       extraction_settings, key_db),
                       key_mapping_db, now))

\* recognize_keys on the tables extracted from a file.  key_db and
\* discovered_keys are the two files as the run finds them; now is the reading
\* of the microsecond clock the run's ids carry.
recognize_keys(tables, key_db, discovered_keys, now) ==
    RecognizeWithCatalog(tables, _load_key_mapping_database(key_db),
                         _load_extraction_settings(key_db), key_db,
                         discovered_keys, now)

NoRun == [done |-> FALSE]

\* No recognize_keys call has been followed yet
NoCall == [pc |-> "idle"]

RecognitionInit ==
    /\ key_db_file = NoFile
    /\ new_keys_file = <<>>
    /\ recognition = [previous |-> NoRun, latest |-> NoRun]
    /\ in_flight = NoCall

\* Times are kept relative to the start of the earlier of the two runs.
Rebased(run, origin) ==
    IF ~run.done THEN run
    ELSE [run EXCEPT
            !.started_at = @ - origin,
            !.result.recognized_keys =
                [i \in DOMAIN @ |-> [@[i] EXCEPT !.id[5] = @ - origin]]]

RunRecord(tables, key_db, now, outcome) ==
    [done |-> TRUE, tables |-> tables, key_db |-> key_db, started_at |-> now,
     result |-> [recognized_keys |-> outcome.recognized_keys,
                 total_found |-> outcome.total_found,
                 pattern_suggestions |-> outcome.pattern_suggestions,
                 new_key_suggestions |-> outcome.new_key_suggestions]]

\* The reading of the clock when the latest run began
LatestStart ==
    IF recognition.latest.done THEN recognition.latest.started_at ELSE 0

RecordRun(tables, now, outcome) ==
    /\ recognition' = [previous |-> Rebased(recognition.latest, LatestStart),
                       latest |-> Rebased(RunRecord(tables, key_db_file, now, outcome),
                                          LatestStart)]
    /\ new_keys_file' = outcome.discovered_keys

\* One call of recognize_keys, elapsed microseconds after the latest one began
RecognizeKeys(tables, elapsed) ==
    /\ RecordRun(tables, LatestStart + elapsed,
                 recognize_keys(tables, key_db_file, new_keys_file,
                                LatestStart + elapsed))
    /\ UNCHANGED <<key_db_file, in_flight, engineVars, scoringVars, relVars,
                   analyzerVars,
                   fieldVars, serviceVars>>

\* POST /key-database: the catalog file is replaced by the posted catalog
SaveKeyDatabase(key_database) ==
    /\ key_db_file' = SavedFile(key_database)
    /\ UNCHANGED <<new_keys_file, recognition, in_flight, engineVars, scoringVars,
                   relVars, analyzerVars,
                   fieldVars, serviceVars>>

RecognitionNext ==
    \/ \E tables \in Documents, elapsed \in 0..MaxElapsed :
            RecognizeKeys(tables, elapsed)
    \/ \E key_database \in SavedCatalogs : SaveKeyDatabase(key_database)

\* Two consecutive runs on the same tables under the same catalog file
RanTwice ==
    /\ recognition.previous.done
    /\ recognition.latest.done
    /\ recognition.latest.tables = recognition.previous.tables
    /\ recognition.latest.key_db = recognition.previous.key_db

Records(recognized_keys) == {recognized_keys[i] : i \in DOMAIN recognized_keys}

WithoutId(recognized_key) == [recognized_key EXCEPT !.id = <<>>]

ScenarioARecognized ==
    \A key_db \in KeyDbFiles :
        \E k \in Records(recognize_keys(<<TableScenarioA>>, key_db, <<>>, 0).recognized_keys) :
            /\ k.key = T_sinjang
            /\ k.match_type = "exact"
            /\ k.confidence = exact_match
            /\ k.anchor_cell.row = 1
            /\ k.anchor_cell.col = 0

\* What the cell loop of a run learns cell by cell, in scan order
FindingsOfRun(run) ==
    FindingsOfCells(CellsOfTables(run.tables), _load_key_mapping_database(run.key_db),
                    _load_extraction_settings(run.key_db), run.key_db)

\* recognized_keys after the first n of the findings
KeysAfter(run, findings, n) ==
    RecognizeCells([recognized_keys |-> NoKeysYet, pattern_suggestions |-> <<>>,
                    new_key_suggestions |-> <<>>, discovered_keys |-> <<>>],
                   SubSeq(findings, 1, n),
                   _load_key_mapping_database(run.key_db),
                   run.started_at).recognized_keys

\* the places where key_name matched, in scan order
RECURSIVE OccurrencesOf(_, _)
OccurrencesOf(findings, key_name) ==
    IF findings = <<>> THEN <<>>
    ELSE LET f == Head(findings)
             here == SelectSeq(f.matches, LAMBDA m : m.key_name = key_name)
         IN  [i \in DOMAIN here |->
                 [anchor_cell |-> AnchorCell(f.cell_text, f.cell),
                  confidence |-> here[i].confidence,
                  match_type |-> here[i].match_type]]
             \o OccurrencesOf(Tail(findings), key_name)

MatchedKeyNames(findings) ==
    UNION {{findings[i].matches[j].key_name : j \in DOMAIN findings[i].matches} :
              i \in DOMAIN findings}

\* one record per matched key: the first occurrence as its anchor, the later
\* ones as its alternative locations
OneRecordPerKey(recognized_keys, findings) ==
    /\ \A i, j \in DOMAIN recognized_keys :
            recognized_keys[i].key = recognized_keys[j].key => i = j
    /\ {recognized_keys[i].key : i \in DOMAIN recognized_keys}
            = MatchedKeyNames(findings)
    /\ \A i \in DOMAIN recognized_keys :
            LET rk == recognized_keys[i]
                occurrences == OccurrencesOf(findings, rk.key)
            IN  /\ occurrences # <<>>
                /\ rk.anchor_cell = occurrences[1].anchor_cell
                /\ rk.confidence = occurrences[1].confidence
                /\ rk.match_type = occurrences[1].match_type
                /\ rk.alternative_locations = Tail(occurrences)
                /\ rk.total_locations = 1 + Len(rk.alternative_locations)
                /\ rk.multiple_found <=> rk.alternative_locations # <<>>

OneRecordPerKeyThroughout(run, findings) ==
    /\ \A n \in 0..Len(findings) :
            OneRecordPerKey(KeysAfter(run, findings, n), SubSeq(findings, 1, n))
    /\ OneRecordPerKey(run.result.recognized_keys, findings)

\* C21: after every cell of a recognize_keys scan and in its result,
\* recognized_keys holds one record per matched key_name; the record's anchor
\* is the key's first occurrence in scan order, the later occurrences are its
\* alternative_locations in scan order, total_locations is 1 + the number of
\* alternative locations, and multiple_found holds exactly when there is one.
C21_OneRecordPerKey ==
    recognition.latest.done =>
        OneRecordPerKeyThroughout(recognition.latest,
                                  FindingsOfRun(recognition.latest))

\* a run that met a key three times, in two tables
C21_Witness ==
    /\ recognition.latest.done
    /\ \E i \in DOMAIN recognition.latest.result.recognized_keys :
            LET rk == recognition.latest.result.recognized_keys[i]
            IN  /\ rk.total_locations >= 3
                /\ rk.multiple_found
                /\ \E a \in DOMAIN rk.alternative_locations :
                        rk.alternative_locations[a].anchor_cell.page_number
                            # rk.anchor_cell.page_number

\* C9: Scenario A.  In the grid <<hangmok, gyeolgwa>>, <<sinjang, 170cm>> the
\* key sinjang is recognized as an exact match at (1,0) with confidence 0.95,
\* and find_value_cell from (1,0) with the strategy select_strategy returns
\* for a horizontal orientation finds 170cm at (1,1) with confidence 0.9.
C9_ScenarioA ==
    \A c \in Callers :
        (/\ Searched(c)
         /\ callers[c].orientation = "horizontal"
         /\ callers[c].table_data = ScenarioAGrid
         /\ callers[c].anchor_row = 1
         /\ callers[c].anchor_col = 0)
            => /\ ScenarioARecognized
               /\ callers[c].result.found
               /\ callers[c].result.row = 1
               /\ callers[c].result.col = 1
               /\ callers[c].result.value = T_170cm
               /\ callers[c].result.confidence = 9000

-----------------------------------------------------------------------------
(* Composite fields: a catalog key may carry expected_fields, and for the
   cell that matches such a key recognize_keys calls _detect_complex_fields
   with the table and the cell's position in all_rows (the header row, when
   there is one, followed by table.rows). *)

\* field_info.get("priority", 999)
DefaultPriority == 999

\* ai_settings.get("default_field_confidence", 0.8)
default_field_confidence == 8000

FieldInfo(field_type, data_type, priority, is_required) ==
    [field_type |-> field_type, data_type |-> data_type, priority |-> priority,
     is_required |-> is_required]

\* key_data of the extended form {patterns, expected_fields}
ComplexKeyData(key_name, patterns, expected_fields) ==
    [key_name |-> key_name, patterns |-> patterns,
     expected_fields |-> expected_fields]

\* The first key of that name, in any section, that has expected_fields
RECURSIVE _get_expected_fields_for_key(_, _)
_get_expected_fields_for_key(key_name, key_mapping_db) ==
    IF key_mapping_db = <<>> THEN <<>>
    ELSE LET with_fields ==
                 {i \in DOMAIN Head(key_mapping_db).keys :
                     /\ Head(key_mapping_db).keys[i].key_name = key_name
                     /\ "expected_fields" \in DOMAIN Head(key_mapping_db).keys[i]}
         IN  IF with_fields # {}
             THEN Head(key_mapping_db).keys[CHOOSE i \in with_fields : TRUE].expected_fields
             ELSE _get_expected_fields_for_key(key_name, Tail(key_mapping_db))

FieldKeywords(field_type, keywords) == [field_type |-> field_type, keywords |-> keywords]

\* field_detection_keywords of the settings used when the file has no
\* _extraction_settings section
DefaultFieldKeywords ==
    <<FieldKeywords("result", <<<<"geom", "sa", "gyeol", "gwa">>, <<"gyeol", "gwa">>,
                                <<"cheuk", "jeong", "gabs">>, <<"gabs">>>>),
      FieldKeywords("normal_range", <<<<"jeong", "sang", "chi">>, <<"gi", "jun", "chi">>,
                                      <<"jeong", "sang", "beom", "wi">>>>),
      FieldKeywords("judgment", <<<<"pan", "jeong">>, <<"so", "gyeon">>,
                                  <<"gyeol", "gwa">>>>),
      FieldKeywords("opinion", <<<<"so", "gyeon">>, <<"ui", "gyeon">>, <<"bi", "go">>>>)>>

\* field_detection_keywords of the settings returned when the file cannot be read
MinimalFieldKeywords ==
    <<FieldKeywords("result", <<<<"gyeol", "gwa">>>>),
      FieldKeywords("normal_range", <<<<"jeong", "sang", "chi">>>>)>>

\* extraction_settings.get("field_detection_keywords", {}): a section of the
\* file without that entry gives no keywords
field_detection_keywords(key_db) ==
    IF ~key_db.exists THEN MinimalFieldKeywords
    ELSE IF \E i \in DOMAIN key_db.content : IsSettingsSection(key_db.content[i])
    THEN <<>>
    ELSE DefaultFieldKeywords

\* field_keywords.get(field_type, [])
KeywordsOf(field_keywords, field_type) ==
    IF \E i \in DOMAIN field_keywords : field_keywords[i].field_type = field_type
    THEN field_keywords[CHOOSE i \in DOMAIN field_keywords :
                            field_keywords[i].field_type = field_type].keywords
    ELSE <<>>

\* An optional column: <<>> is None
NoColumn == <<>>

\* if header and isinstance(header, str): any keyword in header.lower().strip()
HeaderHasKeyword(header, keywords) ==
    /\ IsText(header)
    /\ header # <<>>
    /\ \E k \in DOMAIN keywords : Contains(keywords[k], Strip(Lower(header)))

\* The first header holding a keyword of the field, or else anchor_col +
\* priority when that is a column of the header row
_find_field_column(headers, field_type, field_info, anchor_col, key_db) ==
    LET keywords == KeywordsOf(field_detection_keywords(key_db), field_type)
        hits == {c \in DOMAIN headers : HeaderHasKeyword(headers[c], keywords)}
        estimated_col == anchor_col + field_info.priority
    IN  IF hits # {} THEN <<(CHOOSE c \in hits : \A d \in hits : c <= d) - 1>>
        ELSE IF 0 <= estimated_col /\ estimated_col < Len(headers)
        THEN <<estimated_col>>
        ELSE NoColumn

\* What _try_ai_header_analysis returns: no mapping, or columns named by the
\* hint provider
NoMappings == <<>>

ColumnMapping(col, field_type) == [col |-> col, field_type |-> field_type]

_find_column_by_ai_mapping(ai_mappings, target_field_type) ==
    LET named == {i \in DOMAIN ai_mappings :
                     ai_mappings[i].field_type = target_field_type}
    IN  IF named = {} THEN NoColumn
        ELSE <<ai_mappings[CHOOSE i \in named : \A j \in named : i <= j].col>>

\* table.rows[row][col] stripped, or "" when the position is not in
\* table.rows, the cell is empty or indexing raises
_extract_field_value(table, row, col) ==
    IF /\ row < Len(table.rows)
       /\ col < Len(table.rows[row + 1])
       /\ PyInRange(table.rows[row + 1], col)
       /\ IsText(PyAt(table.rows[row + 1], col))
    THEN Strip(PyAt(table.rows[row + 1], col))
    ELSE <<>>

DetectedField(table, anchor_row, anchor_col, field_info, field_col) ==
    [field_type |-> field_info.field_type,
     col_offset |-> field_col - anchor_col,
     col |-> field_col,
     row |-> anchor_row,
     value |-> _extract_field_value(table, anchor_row, field_col),
     confidence |-> default_field_confidence,
     data_type |-> field_info.data_type,
     is_required |-> field_info.is_required]

\* field_col of one expected field: the hint mapping first, then the headers
FieldColumn(headers, field_info, anchor_col, ai_column_mappings, key_db) ==
    IF _find_column_by_ai_mapping(ai_column_mappings, field_info.field_type) # NoColumn
    THEN _find_column_by_ai_mapping(ai_column_mappings, field_info.field_type)
    ELSE _find_field_column(headers, field_info.field_type, field_info, anchor_col,
                            key_db)

RECURSIVE DetectFields(_, _, _, _, _, _, _)
DetectFields(table, headers, anchor_row, anchor_col, expected_fields, ai_column_mappings, key_db) ==
    IF expected_fields = <<>> THEN <<>>
    ELSE (IF FieldColumn(headers, Head(expected_fields), anchor_col,
                         ai_column_mappings, key_db) = NoColumn
          THEN <<>>
          ELSE <<DetectedField(table, anchor_row, anchor_col, Head(expected_fields),
                               FieldColumn(headers, Head(expected_fields), anchor_col,
                                           ai_column_mappings, key_db)[1])>>)
         \o DetectFields(table, headers, anchor_row, anchor_col,
                         Tail(expected_fields), ai_column_mappings, key_db)

\* headers is table.rows[0], the first data row, also when the table has a
\* header row of its own
_detect_complex_fields(table, anchor_row, anchor_col, expected_fields, ai_column_mappings, key_db) ==
    IF expected_fields = <<>> \/ table.rows = <<>> THEN <<>>
    ELSE DetectFields(table, table.rows[1], anchor_row, anchor_col, expected_fields,
                      ai_column_mappings, key_db)

T_jeongsangchi == <<"jeong", "sang", "chi">>

T_150_190 == <<"1", "5", "0", "-", "1", "9", "0">>

HeightFields ==
    <<FieldInfo("result", "number", 1, TRUE),
      FieldInfo("normal_range", "text", 2, FALSE),
      FieldInfo("opinion", "text", DefaultPriority, FALSE)>>

\* A catalog whose key sinjang is a composite key
ComplexCatalog ==
    <<[category_name |-> "basic",
       keys |-> <<ComplexKeyData(T_sinjang, <<T_sinjang>>, HeightFields),
                  KeyData(T_BP, <<T_BP>>)>>]>>

FieldCatalogs ==
    {ComplexCatalog, ComplexCatalog \o <<SettingsSection(DefaultExtractionSettings)>>}

F_titles == <<T_hangmok, T_gyeolgwa, T_jeongsangchi>>

F_sin == <<T_sinjang, T_170cm, T_150_190>>

F_bp == <<T_BP, T_120, T_blank>>

FieldRows == {F_titles, F_sin, F_bp, R_sin, R_short}

MaxFieldRows == 2

\* Tables with and without a header row of their own, rectangular and ragged
FieldTables ==
    {[page_number |-> 1, headers |-> headers, rows |-> rows] :
        headers \in {<<>>, F_titles},
        rows \in UNION {[1..n -> FieldRows] : n \in 1..MaxFieldRows}}

AiColumnMappings ==
    {NoMappings,
     <<ColumnMapping(1, "result"), ColumnMapping(3, "normal_range")>>}

NoDetection == [done |-> FALSE]

FieldInit == detection = NoDetection

\* The keys with expected_fields that the cell matches
ComplexMatches(cell, key_db) ==
    SelectSeq(CellMatches(_load_extraction_settings(key_db), Strip(cell.cell_value),
                          _load_key_mapping_database(key_db)),
              LAMBDA m : _get_expected_fields_for_key(
                             m.key_name, _load_key_mapping_database(key_db)) # <<>>)

Detected(table, cell, key_name, expected_fields, ai_column_mappings, key_db) ==
    [done |-> TRUE, table |-> table, key_name |-> key_name,
     anchor_row |-> cell.row, anchor_col |-> cell.col,
     expected_fields |-> expected_fields,
     ai_column_mappings |-> ai_column_mappings,
     detected_fields |->
        _detect_complex_fields(table, cell.row, cell.col, expected_fields,
                               ai_column_mappings, key_db)]

\* recognize_keys reaches the first cell of a table that matches a composite
\* key and builds the key's record: detected_fields is what
\* _detect_complex_fields returns for the cell's position in all_rows.
DetectComplexFields(table, c, ai_column_mappings) ==
    LET cells == CellsOfTable(table)
    IN  /\ c \in DOMAIN cells
        /\ cells[c].cell_value # <<>>
        /\ ComplexMatches(cells[c], key_db_file) # <<>>
        /\ \A e \in 1..(c - 1) :
                cells[e].cell_value = <<>>
                    \/ ComplexMatches(cells[e], key_db_file) = <<>>
        /\ detection' =
              Detected(table, cells[c], ComplexMatches(cells[c], key_db_file)[1].key_name,
                       _get_expected_fields_for_key(
                           ComplexMatches(cells[c], key_db_file)[1].key_name,
                           _load_key_mapping_database(key_db_file)),
                       ai_column_mappings, key_db_file)
        /\ UNCHANGED <<engineVars, scoringVars, relVars, analyzerVars, recognitionVars,
                       serviceVars>>

MaxFieldCells == 9

FieldNext ==
    \/ \E key_database \in FieldCatalogs : SaveKeyDatabase(key_database)
    \/ \E table \in FieldTables, c \in 1..MaxFieldCells,
          ai_column_mappings \in AiColumnMappings :
            DetectComplexFields(table, c, ai_column_mappings)

\* C27: every entry of detected_fields refers to a cell of the table: its row
\* is a row of table.rows, its column anchor_col + col_offset is a column of
\* that row, and its value is the text of that cell; a field that resolves
\* outside the table has no entry.
C27_FieldsInGrid ==
    detection.done =>
        \A i \in DOMAIN detection.detected_fields :
            LET field == detection.detected_fields[i]
                col == detection.anchor_col + field.col_offset
            IN  /\ 0 <= field.row
                /\ field.row < Len(detection.table.rows)
                /\ 0 <= col
                /\ col < Len(detection.table.rows[field.row + 1])
                /\ field.value = Strip(detection.table.rows[field.row + 1][col + 1])

-----------------------------------------------------------------------------
(* One recognize_keys call followed through its suspension points, with the
   handlers that write the catalog file running in between.  The handlers are
   coroutines of one event loop, so a call runs undisturbed except where it
   waits for the AI service: stage 2 asks analyze_table_structure(table,
   use_ai=True) for every table with rows, and each of these waits for one
   hint request when the service is configured.  The request ends with an
   answer, with an exception of the client (a failure, or the client's
   timeout), or with the cancellation of the task that waits for it.  The
   catalog and the settings are loaded after stage 2 and the cells are
   scanned; no key of the catalogs modelled has expected_fields, so the scan
   itself does not wait. *)

T_kinopi == <<"ki", "nop", "yi">>

\* Scenario C: a cell with the text kinopi
TableScenarioC ==
    [page_number |-> 1, headers |-> <<T_hangmok, T_gyeolgwa>>,
     rows |-> <<<<T_kinopi, T_170cm>>>>]

RaisedAcceptance == 5000

\* Settings that accept matches from confidence 0.5 on
StrictSettings ==
    [DefaultExtractionSettings EXCEPT
        !.confidence_thresholds.minimum_acceptance = RaisedAcceptance]

StrictCatalog == HeightCatalog \o <<SettingsSection(StrictSettings)>>

PostedCatalogs == {HeightCatalog, StrictCatalog}

CallDocuments == {<<TableScenarioC>>, <<TableTiers>>, <<TableNewKeys, TableNoRows>>}

HintOutcomes == {"answered", "failed", "timeout", "cancelled"}

\* What the prompt answers when it answers
HintAnswer == WithConfidence(AiAnswer("mixed", "complex"), F_0_8)

\* call_ai_with_prompt: the answer, or None after an exception of the client
call_ai_with_prompt(outcome) ==
    IF outcome = "answered" THEN HintAnswer ELSE NoAiResult

RECURSIVE TablesWithRows(_)
TablesWithRows(tables) ==
    IF tables = <<>> THEN <<>>
    ELSE (IF Head(tables).rows # <<>> THEN <<Head(tables)>> ELSE <<>>)
         \o TablesWithRows(Tail(tables))

\* The pass as it stands while the hint for table number waiting of the
\* tables with rows is outstanding
Waiting(tables, waiting, key_db_at_start, hint, analysis) ==
    [pc |-> "hint", tables |-> tables, waiting |-> waiting,
     key_db_at_start |-> key_db_at_start, hint |-> hint, analysis |-> analysis,
     key_mapping_db |-> <<>>, extraction_settings |-> DefaultExtractionSettings,
     result |-> NoRun]

\* CancelledError is not an Exception: it passes the except clauses of
\* call_ai_with_prompt, _ai_based_analysis, analyze_table_structure and
\* recognize_keys, and the call ends without a result.
Aborted(call) == [call EXCEPT !.pc = "aborted", !.hint = "cancelled"]

\* The reading of the clock the ids of a followed call carry: the scan is
\* taken as the origin of time
ScanTime == 0

\* Stage 3: the catalog and the settings are loaded, the cells scanned
Scanned(call, hint, analysis, key_mapping_db, extraction_settings, outcome) ==
    [call EXCEPT !.pc = "done", !.hint = hint, !.analysis = analysis,
                 !.key_mapping_db = key_mapping_db,
                 !.extraction_settings = extraction_settings,
                 !.result = [recognized_keys |-> outcome.recognized_keys,
                             pattern_suggestions |-> outcome.pattern_suggestions,
                             new_key_suggestions |-> outcome.new_key_suggestions]]

ScanAndReturn(call, hint, analysis, outcome) ==
    /\ in_flight' = Scanned(call, hint, analysis,
                            _load_key_mapping_database(key_db_file),
                            _load_extraction_settings(key_db_file), outcome)
    /\ new_keys_file' = outcome.discovered_keys
    /\ UNCHANGED <<key_db_file, recognition>>

Stage3(call, hint, analysis) ==
    ScanAndReturn(call, hint, analysis,
                  recognize_keys(call.tables, key_db_file, new_keys_file, ScanTime))

\* The analysis of the last table with rows when no hint is asked for
LastRuleBased(tables) ==
    IF TablesWithRows(tables) = <<>> THEN NoAnalysis
    ELSE analyze_table_structure(
            TablesWithRows(tables)[Len(TablesWithRows(tables))].rows,
            TRUE, FALSE, NoAiResult)

\* recognize_keys is called: stages 1 and 2 up to the first hint request, or
\* the whole pass when no hint is asked for
StartCall(tables, is_ai_available) ==
    /\ in_flight.pc # "hint"
    /\ IF is_ai_available /\ TablesWithRows(tables) # <<>>
       THEN /\ in_flight' = Waiting(tables, 1, key_db_file, "none", NoAnalysis)
            /\ UNCHANGED <<key_db_file, new_keys_file, recognition>>
       ELSE Stage3(Waiting(tables, 0, key_db_file, "none", NoAnalysis), "none",
                   LastRuleBased(tables))
    /\ UNCHANGED <<engineVars, scoringVars, relVars, analyzerVars,
                   fieldVars, serviceVars>>

\* The table whose hint is outstanding
WaitingRows == TablesWithRows(in_flight.tables)[in_flight.waiting].rows

\* The outstanding hint request ends
HintEnds(outcome) ==
    /\ in_flight.pc = "hint"
    /\ IF outcome = "cancelled"
       THEN /\ in_flight' = Aborted(in_flight)
            /\ UNCHANGED <<key_db_file, new_keys_file, recognition>>
       ELSE IF in_flight.waiting < Len(TablesWithRows(in_flight.tables))
       THEN /\ in_flight' =
                 Waiting(in_flight.tables, in_flight.waiting + 1,
                         in_flight.key_db_at_start, outcome,
                         analyze_table_structure(WaitingRows, TRUE, TRUE,
                                                 call_ai_with_prompt(outcome)))
            /\ UNCHANGED <<key_db_file, new_keys_file, recognition>>
       ELSE Stage3(in_flight, outcome,
                   analyze_table_structure(WaitingRows, TRUE, TRUE,
                                           call_ai_with_prompt(outcome)))
    /\ UNCHANGED <<engineVars, scoringVars, relVars, analyzerVars,
                   fieldVars, serviceVars>>

\* existing_patterns.append(request.anchor_text) for the key of the category
RECURSIVE WithPattern(_, _, _, _)
WithPattern(data, category, key_name, anchor_text) ==
    IF data = <<>> THEN <<>>
    ELSE <<IF Head(data).category_name # category THEN Head(data)
           ELSE [Head(data) EXCEPT !.keys =
                    [i \in DOMAIN @ |->
                        IF @[i].key_name = key_name
                        THEN [@[i] EXCEPT !.patterns = Append(@, anchor_text)]
                        ELSE @[i]]]>>
         \o WithPattern(Tail(data), category, key_name, anchor_text)

\* The request is refused when the file cannot be opened, when the category or
\* the key is not in it, and when the key has the pattern already
PatternAccepted(key_db, category, key_name, anchor_text) ==
    /\ key_db.exists
    /\ \E c \in DOMAIN key_db.content :
          /\ key_db.content[c].category_name = category
          /\ \E k \in DOMAIN key_db.content[c].keys :
                /\ key_db.content[c].keys[k].key_name = key_name
                /\ \A p \in DOMAIN key_db.content[c].keys[k].patterns :
                      key_db.content[c].keys[k].patterns[p] # anchor_text

\* POST add_pattern_to_key: the file is read, changed and written back
add_pattern_to_key(category, key_name, anchor_text) ==
    /\ key_db_file' =
          IF PatternAccepted(key_db_file, category, key_name, anchor_text)
          THEN SavedFile(WithPattern(key_db_file.content, category, key_name,
                                     anchor_text))
          ELSE key_db_file
    /\ UNCHANGED <<new_keys_file, recognition, in_flight, engineVars, scoringVars,
                   relVars, analyzerVars,
                   fieldVars, serviceVars>>

CallNext ==
    \/ \E tables \in CallDocuments, is_ai_available \in BOOLEAN :
            StartCall(tables, is_ai_available)
    \/ \E outcome \in HintOutcomes : HintEnds(outcome)
    \/ \E key_database \in PostedCatalogs : SaveKeyDatabase(key_database)
    \/ add_pattern_to_key("basic", T_sinjang, T_geomsa)

\* The keys of a category that have the pattern
OwnersIn(category, pattern) ==
    {category.keys[k].key_name :
        k \in {j \in DOMAIN category.keys :
                  \E p \in DOMAIN category.keys[j].patterns :
                      category.keys[j].patterns[p] = pattern}}

\* The names of the keys of a catalog that have the pattern
OwnersOf(key_mapping_db, pattern) ==
    UNION {OwnersIn(key_mapping_db[c], pattern) :
            c \in {i \in DOMAIN key_mapping_db :
                      ~IsSettingsSection(key_mapping_db[i])}}

HasCell(tables, text) ==
    \E t \in DOMAIN tables : \E r \in DOMAIN tables[t].rows :
        \E c \in DOMAIN tables[t].rows[r] : tables[t].rows[r][c] = text

\* C11: Scenario C.  With a catalog in which a key has the pattern ki,
\* recognizing a table with a cell kinopi emits a pattern suggestion for
\* that cell whose suggested_key is the key that owns the pattern ki, and
\* emits no new-key suggestion for the cell.
C11_ScenarioC ==
    (/\ in_flight.pc = "done"
     /\ HasCell(in_flight.tables, T_kinopi)
     /\ OwnersOf(in_flight.key_mapping_db, <<"ki">>) # {})
        => /\ \E i \in DOMAIN in_flight.result.pattern_suggestions :
                /\ in_flight.result.pattern_suggestions[i].anchor_text = T_kinopi
                /\ in_flight.result.pattern_suggestions[i].suggested_key
                        \in OwnersOf(in_flight.key_mapping_db, <<"ki">>)
           /\ \A i \in DOMAIN in_flight.result.new_key_suggestions :
                in_flight.result.new_key_suggestions[i].key_name # T_kinopi

\* The rows of the table the latest hint request was made for
HintedRows ==
    TablesWithRows(in_flight.tables)[
        IF in_flight.pc = "hint" /\ in_flight.hint # "cancelled"
        THEN in_flight.waiting - 1 ELSE in_flight.waiting].rows

\* The tiers as the matching rule states them, for a cleaned cell text t and
\* a cleaned pattern p
StatedTier(t, p) ==
    IF t = p THEN [matched |-> TRUE, match_type |-> "exact", confidence |-> 9500]
    ELSE IF StartsWith(t, p)
    THEN [matched |-> TRUE, match_type |-> "prefix", confidence |-> 8000]
    ELSE IF EndsWith(t, p)
    THEN [matched |-> TRUE, match_type |-> "suffix", confidence |-> 7000]
    ELSE IF SearchWordBoundary(p, t) /\ Len(p) >= 3
    THEN [matched |-> TRUE, match_type |-> "word_boundary", confidence |-> 6000]
    ELSE IF Contains(p, t) /\ Len(p) >= 3
    THEN [matched |-> TRUE, match_type |-> "partial", confidence |-> 4000]
    ELSE NoPatternMatch

\* the patterns of a catalog in catalog order, each with the key it belongs to
RECURSIVE PatternsOfKeys(_)
PatternsOfKeys(category_keys) ==
    IF category_keys = <<>> THEN <<>>
    ELSE [p \in DOMAIN Head(category_keys).patterns |->
             [key_name |-> Head(category_keys).key_name,
              pattern |-> Head(category_keys).patterns[p]]]
         \o PatternsOfKeys(Tail(category_keys))

RECURSIVE PatternsInCatalogOrder(_)
PatternsInCatalogOrder(key_mapping_db) ==
    IF key_mapping_db = <<>> THEN <<>>
    ELSE (IF IsSettingsSection(Head(key_mapping_db)) THEN <<>>
          ELSE PatternsOfKeys(Head(key_mapping_db).keys))
         \o PatternsInCatalogOrder(Tail(key_mapping_db))

\* the matches the first matching pattern gives a cell: one, or none
StatedCellMatches(cell_text, patterns) ==
    LET t == Lower(Strip(cell_text))
        hits == {i \in DOMAIN patterns :
                    StatedTier(t, Lower(Strip(patterns[i].pattern))).matched}
    IN  IF hits = {} THEN {}
        ELSE LET first == CHOOSE i \in hits : \A j \in hits : i <= j
                 tier == StatedTier(t, Lower(Strip(patterns[first].pattern)))
             IN  {[key_name |-> patterns[first].key_name,
                   match_type |-> tier.match_type,
                   confidence |-> tier.confidence]}

\* the matches a result records at a cell, as anchors or alternative locations
MatchesRecordedAt(recognized_keys, cell) ==
    LET here == AnchorCell(Strip(cell.cell_value), cell)
    IN  {[key_name |-> recognized_keys[i].key,
          match_type |-> recognized_keys[i].match_type,
          confidence |-> recognized_keys[i].confidence] :
            i \in {k \in DOMAIN recognized_keys :
                      recognized_keys[k].anchor_cell = here}}
        \cup UNION {{[key_name |-> recognized_keys[i].key,
                      match_type |-> recognized_keys[i].alternative_locations[a].match_type,
                      confidence |-> recognized_keys[i].alternative_locations[a].confidence] :
                        a \in {b \in DOMAIN recognized_keys[i].alternative_locations :
                                  recognized_keys[i].alternative_locations[b].anchor_cell
                                      = here}} :
                    i \in DOMAIN recognized_keys}

FirstMatchDecides(cells, recognized_keys, patterns) ==
    \A i \in DOMAIN cells :
        cells[i].cell_value # <<>>
            => MatchesRecordedAt(recognized_keys, cells[i])
                   = StatedCellMatches(cells[i].cell_value, patterns)

\* C23: every cell of a recognize_keys pass yields the match of the first
\* pattern, in catalog order, that matches its trimmed lower-cased text, with
\* the tier and confidence exact 0.95, prefix 0.8, suffix 0.7, word_boundary
\* 0.6 (pattern of 3 characters or more), partial 0.4 (pattern of 3 characters
\* or more), and no other match: a cell yields at most one match.
C23_FirstMatchDecides ==
    in_flight.pc = "done"
        => FirstMatchDecides(CellsOfTables(in_flight.tables),
                             in_flight.result.recognized_keys,
                             PatternsInCatalogOrder(in_flight.key_mapping_db))

\* the names of the top-level sections of a catalog: the categories and the
\* reserved sections
SectionNames(key_mapping_db) ==
    {key_mapping_db[i].category_name : i \in DOMAIN key_mapping_db}

SimilarityTo(anchor_text, entry) ==
    PatternSimilarity(Strip(Lower(anchor_text)), Strip(Lower(entry.pattern)))

\* the keys that own a pattern of the best similarity to the text
BestOwners(anchor_text, patterns) ==
    {patterns[i].key_name :
        i \in {j \in DOMAIN patterns :
                  \A k \in DOMAIN patterns :
                      SimilarityTo(anchor_text, patterns[j]).num
                              * SimilarityTo(anchor_text, patterns[k]).den
                          >= SimilarityTo(anchor_text, patterns[k]).num
                              * SimilarityTo(anchor_text, patterns[j]).den}}

\* C28: the suggested_key of every pattern suggestion is not the name of a
\* category or of a reserved section, and is the key_name of the catalog key
\* that owns the pattern most similar to the cell text.
C28_SuggestedKeyIsKey ==
    in_flight.pc = "done"
        => \A i \in DOMAIN in_flight.result.pattern_suggestions :
              /\ in_flight.result.pattern_suggestions[i].suggested_key
                    \notin SectionNames(in_flight.key_mapping_db)
              /\ in_flight.result.pattern_suggestions[i].suggested_key
                    \in BestOwners(in_flight.result.pattern_suggestions[i].anchor_text,
                                   PatternsInCatalogOrder(in_flight.key_mapping_db))

\* C13: when the hint request made inside analyze_table_structure ends by
\* timeout or by cancellation, the analyzer returns the rule-based analysis
\* and the recognize_keys pass goes on: the cancellation does not leave the
\* analyzer and does not abort the pass.
C13_HintDiscarded ==
    in_flight.pc # "idle" /\ in_flight.hint \in {"timeout", "cancelled"}
        => /\ in_flight.pc # "aborted"
           /\ in_flight.analysis =
                 analyze_table_structure(HintedRows, FALSE, FALSE, NoAiResult)

\* What recognize_keys returns for the tables under the catalog file given
ResultUnder(tables, key_db) ==
    [recognized_keys |-> recognize_keys(tables, key_db, <<>>, ScanTime).recognized_keys,
     pattern_suggestions |->
        recognize_keys(tables, key_db, <<>>, ScanTime).pattern_suggestions,
     new_key_suggestions |->
        recognize_keys(tables, key_db, <<>>, ScanTime).new_key_suggestions]

\* C15: a recognize_keys run evaluates every cell against the catalog and the
\* tunable parameters as they were when the run started: a catalog write
\* that interleaves with the run at a suspension point does not change the
\* values used for the cells scanned after it.
C15_CatalogOfStart ==
    in_flight.pc = "done"
        => in_flight.result = ResultUnder(in_flight.tables, in_flight.key_db_at_start)

\* C16: no recognized key returned, neither a primary record nor an entry of
\* alternative_locations, has a confidence below the configured
\* minimum_acceptance.
C16_AcceptanceGate ==
    in_flight.pc = "done"
        => \A i \in DOMAIN in_flight.result.recognized_keys :
              /\ in_flight.result.recognized_keys[i].confidence >=
                    in_flight.extraction_settings.confidence_thresholds.minimum_acceptance
              /\ \A a \in DOMAIN in_flight.result.recognized_keys[i].alternative_locations :
                    in_flight.result.recognized_keys[i].alternative_locations[a].confidence >=
                        in_flight.extraction_settings.confidence_thresholds.minimum_acceptance

-----------------------------------------------------------------------------
(* Analysis service: src/backend/services/analysis_service.py.  The service
   is a singleton; start_analysis stores an AnalysisResults under a fresh id
   and hands _run_analysis to the background tasks of the request, which run
   it after the response has been sent, so that other requests, a cancel
   among them, can be served before it runs.  _run_analysis itself has no
   suspension point: extract_tables calls the PDF processor synchronously. *)

MaxAnalyses == 3

MaxTables == 2

\* What extract_tables does for the file: it raises, or returns that many tables
ExtractOutcomes ==
    {[raised |-> TRUE, tables |-> 0]}
        \cup {[raised |-> FALSE, tables |-> n] : n \in 0..MaxTables}

\* AnalysisResults(status=PROCESSING, updated_at=None), with the background
\* task the request holds for it and what cancel_analysis last returned
NewAnalysis(task) ==
    [status |-> "processing", total_tables |-> 0, updated |-> FALSE,
     task |-> task, cancel_returned |-> "never"]

\* _run_analysis: the status is set to PROCESSING, the tables are extracted
\* and the result is stored as COMPLETED, or FAILED when the extraction raised
_run_analysis(analysis, outcome) ==
    IF outcome.raised
    THEN [analysis EXCEPT !.status = "failed", !.updated = TRUE, !.task = "done"]
    ELSE [analysis EXCEPT !.status = "completed", !.total_tables = outcome.tables,
                          !.updated = TRUE, !.task = "done"]

\* A status in which cancel_analysis refuses
Terminal == {"completed", "failed", "cancelled"}

cancel_analysis(analysis) ==
    IF analysis.status \in Terminal
    THEN [analysis EXCEPT !.cancel_returned = "false"]
    ELSE [analysis EXCEPT !.status = "cancelled", !.updated = TRUE,
                          !.cancel_returned = "true"]

ServiceInit == service_analyses = <<>>

\* start_analysis for a file that exists (for an unknown file_id it raises
\* before anything is stored).  With background tasks the run is queued;
\* without them it is awaited before start_analysis returns.
StartAnalysis(background, outcome) ==
    /\ Len(service_analyses) < MaxAnalyses
    /\ service_analyses' =
          Append(service_analyses,
                 IF background THEN NewAnalysis("queued")
                 ELSE _run_analysis(NewAnalysis("inline"), outcome))
    /\ UNCHANGED <<engineVars, scoringVars, relVars, analyzerVars, recognitionVars,
                   fieldVars>>

\* The background task of an analysis runs
RunAnalysis(analysis_id, outcome) ==
    /\ analysis_id \in DOMAIN service_analyses
    /\ service_analyses[analysis_id].task = "queued"
    /\ service_analyses' =
          [service_analyses EXCEPT ![analysis_id] = _run_analysis(@, outcome)]
    /\ UNCHANGED <<engineVars, scoringVars, relVars, analyzerVars, recognitionVars,
                   fieldVars>>

\* POST cancel for a stored analysis (for an unknown id it returns False)
CancelAnalysis(analysis_id) ==
    /\ analysis_id \in DOMAIN service_analyses
    /\ service_analyses' =
          [service_analyses EXCEPT ![analysis_id] = cancel_analysis(@)]
    /\ UNCHANGED <<engineVars, scoringVars, relVars, analyzerVars, recognitionVars,
                   fieldVars>>

ServiceNext ==
    \/ \E background \in BOOLEAN, outcome \in ExtractOutcomes :
            StartAnalysis(background, outcome)
    \/ \E analysis_id \in 1..MaxAnalyses, outcome \in ExtractOutcomes :
            RunAnalysis(analysis_id, outcome)
    \/ \E analysis_id \in 1..MaxAnalyses : CancelAnalysis(analysis_id)

\* C29: once the status of an analysis is CANCELLED, COMPLETED or FAILED it
\* keeps that status in every later state; in particular a run that ends
\* after a successful cancel_analysis leaves the status CANCELLED.
C29_TerminalStatusKept ==
    [][\A analysis_id \in DOMAIN service_analyses :
          service_analyses[analysis_id].status \in Terminal
              => service_analyses'[analysis_id].status
                     = service_analyses[analysis_id].status]_vars

-----------------------------------------------------------------------------
(* Specifications *)

Init ==
    /\ EngineInit /\ ScoringInit /\ RelInit /\ AnalyzerInit /\ RecognitionInit
    /\ FieldInit /\ ServiceInit

SpecEngine == Init /\ [][EngineNext]_vars

SpecSearch == Init /\ [][SearchNext]_vars

SpecConfidence == Init /\ [][ConfidenceNext]_vars

SpecRelationship == Init /\ [][RelNext]_vars

SpecPersistence == Init /\ [][PersistNext]_vars

SpecAnalyzer == Init /\ [][AnalyzerNext]_vars

SpecRecognition == Init /\ [][RecognitionNext]_vars

SpecCall == Init /\ [][CallNext]_vars

SpecFields == Init /\ [][FieldNext]_vars

SpecService == Init /\ [][ServiceNext]_vars

=============================================================================
